---- MODULE Spec2Model ----
(***************************************************************************)
(* A model of the point-set client networking core: the NetChan shared by  *)
(* the game thread and the network worker (src/src/chan.rs), the worker's  *)
(* session state machine and tick loop (src/src/worker.rs), the error      *)
(* taxonomy (src/src/base.rs) and the frame codec (src/src/codec.rs).      *)
(***************************************************************************)
EXTENDS Integers, Sequences, FiniteSets, TLC

(***************************************************************************)
(* Bounds of the model.                                                    *)
(***************************************************************************)
\* send_input calls the game thread makes in one run
MaxInputs == 2
\* largest frame number the game thread submits (1..MaxFrame)
MaxFrame == 2
\* game_over calls the game thread makes in one run
MaxGameOver == 1
\* payloads the transport delivers to the worker in one run
MaxMsgs == 3
\* the clock saturates here (milliseconds since started_at)
MaxTime == 21000
\* how far the clock may jump while update_udp blocks (milliseconds)
TimeStep == 10500
\* payloads delivered in the runs checked for termination
LiveMsgs == 2
\* the clock in the runs checked for termination (milliseconds)
LiveTime == 5000
\* send_input calls that return Ok when the channel is driven on its own
MaxSubmitted == 4
\* commands the output accumulator and the caller's buffer hold together
\* when the channel is driven on its own
MaxOutput == 1
\* NetChan::finish calls when the channel is driven on its own
MaxFinish == 1
\* OutSendCommands stops once this many commands were handed over
MaxSent == 3
\* the clock of the tick schedule stops here (milliseconds since started_at)
MaxTickMs == 120
\* the most the clock moves between two readings at the top of update()'s loop
MaxTickStep == 12

(***************************************************************************)
(* Program constants (src/src/base.rs).                                    *)
(***************************************************************************)
KCP_INTERVAL == 10
KCP_MIN_PACKET == 3
KCP_MAX_PACKET == 1880
CONNECT_TIMEOUT == 10
START_TIMEOUT == 20
UPDATE_TIMEOUT == 7
FINISH_TIMEOUT == 5
\* Vec::with_capacity(3) of NetChan::new
CACHE_CAP == 3
\* the conv the worker is constructed with, and another player's
SelfConv == 1
PeerConv == SelfConv + 1

Min(a, b) == IF a < b THEN a ELSE b

(***************************************************************************)
(* Enumerations of the generated message module: NetType tags (spec 6.1),  *)
(* NetPlayerState and NetFinishCause.                                      *)
(***************************************************************************)
NetTypeOf(tag) ==
    CASE tag = 1 -> "Connect"
      [] tag = 2 -> "Accept"
      [] tag = 3 -> "State"
      [] tag = 4 -> "Start"
      [] tag = 5 -> "Finish"
      [] tag = 6 -> "Command"
      [] tag = 7 -> "Hash"
      [] OTHER -> "Unknown"

NetTypeValue(typ) ==
    CASE typ = "Connect" -> 1
      [] typ = "Accept" -> 2
      [] typ = "State" -> 3
      [] typ = "Start" -> 4
      [] typ = "Finish" -> 5
      [] typ = "Command" -> 6
      [] typ = "Hash" -> 7
      [] OTHER -> 0

PlayerStates == <<"Initing", "Waiting", "Running", "Stopped">>
PlayerStateSet == {PlayerStates[i] : i \in 1..4}
\* the position of a state in the order Initing < Waiting < Running < Stopped
StateRank(s) == CHOOSE i \in 1..4 : PlayerStates[i] = s
PlayerStateOf(n) == IF n \in 0..3 THEN PlayerStates[n + 1] ELSE "Initing"
PlayerStateValue(s) == StateRank(s) - 1

FinishCauseNames == <<"NetworkBroken", "InvalidPacket", "GameOver", "ClientError", "ServerDefined">>
FinishCauses == {FinishCauseNames[i] : i \in 1..5}
FinishCauseOf(n) == IF n \in 0..4 THEN FinishCauseNames[n + 1] ELSE "NetworkBroken"
FinishCauseValue(c) == (CHOOSE i \in 1..5 : FinishCauseNames[i] = c) - 1

(***************************************************************************)
(* The structured payload encoding of the message classes (protobuf wire   *)
(* format, proto3): a field is a key varint (number * 8 + wire type) and   *)
(* a value; a field holding its default value is not written.              *)
(***************************************************************************)
RECURSIVE Varint(_)
Varint(v) == IF v < 128 THEN <<v>> ELSE <<128 + (v % 128)>> \o Varint(v \div 128)

PbVarintField(num, v) == IF v = 0 THEN <<>> ELSE <<num * 8>> \o Varint(v)

PbBytesField(num, b) == IF b = <<>> THEN <<>> ELSE <<num * 8 + 2>> \o Varint(Len(b)) \o b

RECURSIVE ReadVarint(_, _)
ReadVarint(b, p) ==
    IF p > Len(b) THEN [ok |-> FALSE, val |-> 0, next |-> p]
    ELSE IF b[p] < 128 THEN [ok |-> TRUE, val |-> b[p], next |-> p + 1]
    ELSE LET r == ReadVarint(b, p + 1)
         IN  [ok |-> r.ok, val |-> (b[p] - 128) + 128 * r.val, next |-> r.next]

PbBad == [ok |-> FALSE, fields |-> <<>>]

\* the fields of a payload in wire order, or a failure on a truncated or
\* ill-formed field
RECURSIVE PbFields(_, _)
PbFields(b, p) ==
    IF p > Len(b) THEN [ok |-> TRUE, fields |-> <<>>]
    ELSE LET k == ReadVarint(b, p)
             wt == k.val % 8
             num == k.val \div 8
         IN  IF ~k.ok \/ num = 0 THEN PbBad
             ELSE IF wt = 0 THEN
                 LET v == ReadVarint(b, k.next)
                     rest == PbFields(b, v.next)
                 IN  IF ~v.ok \/ ~rest.ok THEN PbBad
                     ELSE [ok |-> TRUE,
                           fields |-> <<[num |-> num, wt |-> 0, val |-> v.val, bytes |-> <<>>]>>
                                      \o rest.fields]
             ELSE IF wt = 2 THEN
                 LET l == ReadVarint(b, k.next)
                     last == l.next + l.val - 1
                     rest == PbFields(b, last + 1)
                 IN  IF ~l.ok \/ last > Len(b) \/ ~rest.ok THEN PbBad
                     ELSE [ok |-> TRUE,
                           fields |-> <<[num |-> num, wt |-> 2, val |-> 0,
                                         bytes |-> SubSeq(b, l.next, last)]>>
                                      \o rest.fields]
             ELSE IF wt \in {1, 5} THEN
                 LET last == k.next + (IF wt = 1 THEN 8 ELSE 4) - 1
                     rest == PbFields(b, last + 1)
                 IN  IF last > Len(b) \/ ~rest.ok THEN PbBad
                     ELSE [ok |-> TRUE,
                           fields |-> <<[num |-> num, wt |-> wt, val |-> 0, bytes |-> <<>>]>>
                                      \o rest.fields]
             ELSE PbBad

\* a known field written with another wire type fails the parse
PbWireOk(fields, wts) ==
    \A i \in 1..Len(fields) :
        fields[i].num \in DOMAIN wts => fields[i].wt = wts[fields[i].num]

\* the last occurrence of a field wins; an absent field keeps its default
RECURSIVE PbLast(_, _, _)
PbLast(fields, num, default) ==
    IF fields = <<>> THEN default
    ELSE LET f == fields[Len(fields)]
         IN  IF f.num = num THEN f
             ELSE PbLast(SubSeq(fields, 1, Len(fields) - 1), num, default)

PbDefault == [num |-> 0, wt |-> 0, val |-> 0, bytes |-> <<>>]

\* write_to_vec of each message class
PbWrite(msg) ==
    CASE msg.type = "Connect" ->
            PbBytesField(1, msg.room_id) \o PbBytesField(2, msg.player_id)
                \o PbBytesField(3, msg.password)
      [] msg.type = "State" ->
            PbVarintField(1, msg.conv) \o PbVarintField(2, PlayerStateValue(msg.state))
      [] msg.type = "Finish" -> PbVarintField(1, FinishCauseValue(msg.cause))
      [] msg.type = "Command" -> PbVarintField(1, msg.conv) \o PbVarintField(2, msg.frame)
      [] msg.type = "Hash" -> PbVarintField(1, msg.frame) \o PbBytesField(2, msg.hash)
      [] OTHER -> <<>>

\* parse_from_bytes of the message class of typ
PbParse(typ, pb) ==
    LET wts == CASE typ = "Connect" -> <<2, 2, 2>>
                 [] typ = "State" -> <<0, 0>>
                 [] typ = "Finish" -> <<0>>
                 [] typ = "Command" -> <<0, 0>>
                 [] typ = "Hash" -> <<0, 2>>
                 [] OTHER -> <<>>
        message(f1, f2, f3) ==
            CASE typ = "Connect" ->
                    [type |-> typ, room_id |-> f1.bytes, player_id |-> f2.bytes,
                     password |-> f3.bytes]
              [] typ = "State" ->
                    [type |-> typ, conv |-> f1.val, state |-> PlayerStateOf(f2.val)]
              [] typ = "Finish" -> [type |-> typ, cause |-> FinishCauseOf(f1.val)]
              [] typ = "Command" -> [type |-> typ, conv |-> f1.val, frame |-> f2.val]
              [] typ = "Hash" -> [type |-> typ, frame |-> f1.val, hash |-> f2.bytes]
              [] OTHER -> [type |-> typ]
        parsed(r) ==
            IF ~r.ok \/ ~PbWireOk(r.fields, wts) THEN [ok |-> FALSE, msg |-> [type |-> typ]]
            ELSE [ok |-> TRUE,
                  msg |-> message(PbLast(r.fields, 1, PbDefault), PbLast(r.fields, 2, PbDefault),
                                  PbLast(r.fields, 3, PbDefault))]
    IN  parsed(PbFields(pb, 1))

(***************************************************************************)
(* NetMessage::decode and NetMessage::encode: the outer frame              *)
(* [tag:u8][len:u16 BE][payload].                                          *)
(***************************************************************************)
DecodeErr(e) == [ok |-> FALSE, err |-> e, msg |-> [type |-> "Unknown"], offset |-> 0]

ReadU16BE(bytes) == bytes[2] * 256 + bytes[3]

\* a payload protobuf rejects reported as PacketBroken
NetMessageDecodeBroken(bytes) ==
    IF Len(bytes) < KCP_MIN_PACKET THEN DecodeErr("PacketTooShort")
    ELSE IF Len(bytes) > KCP_MAX_PACKET THEN DecodeErr("PacketTooLong")
    ELSE LET msg_size == ReadU16BE(bytes)
             offset == KCP_MIN_PACKET + msg_size
         IN  IF offset > Len(bytes) THEN DecodeErr("PacketBroken")
             ELSE LET typ == NetTypeOf(bytes[1])
                      pb_bytes == SubSeq(bytes, KCP_MIN_PACKET + 1, offset)
                      result(parsed) ==
                          IF ~parsed.ok THEN DecodeErr("PacketBroken")
                          ELSE [ok |-> TRUE, err |-> "None", msg |-> parsed.msg,
                                offset |-> offset]
                  IN  IF typ = "Unknown" THEN DecodeErr("PacketBroken")
                      ELSE result(PbParse(typ, pb_bytes))

NetMessageDecode(bytes) ==
    IF Len(bytes) < KCP_MIN_PACKET THEN DecodeErr("PacketTooShort")
    ELSE IF Len(bytes) > KCP_MAX_PACKET THEN DecodeErr("PacketTooLong")
    ELSE LET msg_size == ReadU16BE(bytes)
             offset == KCP_MIN_PACKET + msg_size
         IN  IF offset > Len(bytes) THEN DecodeErr("PacketBroken")
             ELSE LET typ == NetTypeOf(bytes[1])
                      pb_bytes == SubSeq(bytes, KCP_MIN_PACKET + 1, offset)
                      result(parsed) ==
                          IF ~parsed.ok THEN DecodeErr("Protobuf")
                          ELSE [ok |-> TRUE, err |-> "None", msg |-> parsed.msg,
                                offset |-> offset]
                  IN  IF typ = "Unknown" THEN DecodeErr("PacketBroken")
                      ELSE result(PbParse(typ, pb_bytes))

\* encode writing the length field little-endian
NetMessageEncodeLittleEndian(msg, bytes) ==
    LET pb == PbWrite(msg)
        offset == KCP_MIN_PACKET + Len(pb)
        msg_size == offset - KCP_MIN_PACKET
    IN  IF offset > KCP_MAX_PACKET
        THEN [ok |-> FALSE, err |-> "MessageTooLong",
              bytes |-> bytes \o <<NetTypeValue(msg.type), 0, 0>> \o pb, written |-> 0]
        ELSE [ok |-> TRUE, err |-> "None",
              bytes |-> bytes \o <<NetTypeValue(msg.type), msg_size % 256, msg_size \div 256>> \o pb,
              written |-> offset]

\* encode without the test of the frame's length
NetMessageEncodeNoBound(msg, bytes) ==
    LET pb == PbWrite(msg)
        offset == KCP_MIN_PACKET + Len(pb)
        msg_size == offset - KCP_MIN_PACKET
    IN  [ok |-> TRUE, err |-> "None",
         bytes |-> bytes \o <<NetTypeValue(msg.type), (msg_size \div 256) % 256, msg_size % 256>>
                         \o pb,
         written |-> offset]

\* the frame of msg appended to bytes; on MessageTooLong bytes already holds
\* the tag, a zero length and the payload
NetMessageEncode(msg, bytes) ==
    LET pb == PbWrite(msg)
        offset == KCP_MIN_PACKET + Len(pb)
        msg_size == offset - KCP_MIN_PACKET
    IN  IF offset > KCP_MAX_PACKET
        THEN [ok |-> FALSE, err |-> "MessageTooLong",
              bytes |-> bytes \o <<NetTypeValue(msg.type), 0, 0>> \o pb, written |-> 0]
        ELSE [ok |-> TRUE, err |-> "None",
              bytes |-> bytes \o <<NetTypeValue(msg.type), msg_size \div 256, msg_size % 256>> \o pb,
              written |-> offset]

(***************************************************************************)
(* The trailing command list (bincode, fixed-width little-endian           *)
(* integers): an 8-byte length, then per Command a 4-byte variant index    *)
(* and its 4-byte fields. A Command is [variant, args]: Aaa is variant 0   *)
(* with two i32 fields, Bbb is variant 1 with three f32 fields; a field is *)
(* its 32-bit pattern.                                                     *)
(***************************************************************************)
CommandArity(variant) == IF variant = 0 THEN 2 ELSE 3

RECURSIVE LEBytes(_, _)
LEBytes(v, n) == IF n = 0 THEN <<>> ELSE <<v % 256>> \o LEBytes(v \div 256, n - 1)

RECURSIVE ReadLE(_, _, _)
ReadLE(b, p, n) == IF n = 0 THEN 0 ELSE b[p] + 256 * ReadLE(b, p + 1, n - 1)

RECURSIVE SerializeWords(_)
SerializeWords(ws) == IF ws = <<>> THEN <<>> ELSE LEBytes(Head(ws), 4) \o SerializeWords(Tail(ws))

\* the list split in halves, which keeps the evaluation shallow on a long list
RECURSIVE SerializeCommands(_)
SerializeCommands(cmds) ==
    IF cmds = <<>> THEN <<>>
    ELSE IF Len(cmds) = 1
    THEN LEBytes(Head(cmds).variant, 4) \o SerializeWords(Head(cmds).args)
    ELSE SerializeCommands(SubSeq(cmds, 1, Len(cmds) \div 2))
            \o SerializeCommands(SubSeq(cmds, Len(cmds) \div 2 + 1, Len(cmds)))

BincodeSerialize(cmds) == LEBytes(Len(cmds), 8) \o SerializeCommands(cmds)

\* the position after the Command that starts at p, 0 when none can be
\* read there (the bytes end, or the variant is unknown) or p is 0
CommandEnd(b, p) ==
    IF p = 0 \/ p + 3 > Len(b) THEN 0
    ELSE IF ReadLE(b, p, 4) \notin {0, 1} THEN 0
    ELSE IF p + 4 + 4 * CommandArity(ReadLE(b, p, 4)) - 1 > Len(b) THEN 0
    ELSE p + 4 + 4 * CommandArity(ReadLE(b, p, 4))

\* the position after n Commands read from p on, 0 when one of them cannot
\* be read: the first half of them is read, then the rest from where it
\* ended
RECURSIVE CommandsEnd(_, _, _)
CommandsEnd(b, p, n) ==
    IF n = 0 THEN p
    ELSE IF n = 1 THEN CommandEnd(b, p)
    ELSE CHOOSE e \in { CommandsEnd(b, q, n - n \div 2) :
                            q \in {CommandsEnd(b, p, n \div 2)} } : TRUE

\* the Command that starts at p
CommandAt(b, p) ==
    [variant |-> ReadLE(b, p, 4),
     args |-> [i \in 1..CommandArity(ReadLE(b, p, 4)) |-> ReadLE(b, p + 4 * i, 4)]]

\* n Commands read from position p: [ok, commands, next]; on a failure
\* commands holds the Commands read before it. A Command takes 4 bytes at
\* least, which bounds the Commands that can be read whatever n announces
DeserializeCommands(b, p, n) ==
    LET result(k) ==
            [ok |-> k = n,
             commands |-> [i \in 1..k |-> CommandAt(b, CommandsEnd(b, p, i - 1))],
             next |-> IF k = n THEN CommandsEnd(b, p, n) ELSE p]
    IN  result(Cardinality({ i \in 1..Min(n, (Len(b) + 1) \div 4 + 1) :
                                CommandsEnd(b, p, i) # 0 }))

\* the whole of b is one serialized list; bytes left over are an error.
\* commands is what the visitor was handed, also on a failure
BincodeDeserialize(b) ==
    IF Len(b) < 8 THEN [ok |-> FALSE, commands |-> <<>>]
    ELSE LET r == DeserializeCommands(b, 9, ReadLE(b, 1, 8))
         IN  [ok |-> r.ok /\ r.next = Len(b) + 1, commands |-> r.commands]

(***************************************************************************)
(* CommandEncoder::encode on the staging buffers (commands, hash), and     *)
(* CommandDecoder::decode. encode returns the two packets and the staging  *)
(* buffers it leaves; a failure leaves the staging buffers as they were.   *)
(***************************************************************************)
\* encode that leaves the staging buffers as they are
CommandEncoderEncodeKept(commands, hash, frame) ==
    LET h == NetMessageEncode([type |-> "Hash", frame |-> frame, hash |-> hash], <<>>)
        c == NetMessageEncode([type |-> "Command", conv |-> 0, frame |-> frame], <<>>)
    IN  IF ~h.ok
        THEN [ok |-> FALSE, err |-> h.err, hash_bytes |-> h.bytes, command_bytes |-> <<>>,
              commands |-> commands, hash |-> hash]
        ELSE IF ~c.ok
        THEN [ok |-> FALSE, err |-> c.err, hash_bytes |-> h.bytes, command_bytes |-> c.bytes,
              commands |-> commands, hash |-> hash]
        ELSE [ok |-> TRUE, err |-> "None", hash_bytes |-> h.bytes,
              command_bytes |-> c.bytes \o BincodeSerialize(commands),
              commands |-> commands, hash |-> hash]

CommandEncoderEncode(commands, hash, frame) ==
    LET h == NetMessageEncode([type |-> "Hash", frame |-> frame, hash |-> hash], <<>>)
        c == NetMessageEncode([type |-> "Command", conv |-> 0, frame |-> frame], <<>>)
    IN  IF ~h.ok
        THEN [ok |-> FALSE, err |-> h.err, hash_bytes |-> h.bytes, command_bytes |-> <<>>,
              commands |-> commands, hash |-> hash]
        ELSE IF ~c.ok
        THEN [ok |-> FALSE, err |-> c.err, hash_bytes |-> h.bytes, command_bytes |-> c.bytes,
              commands |-> commands, hash |-> hash]
        ELSE [ok |-> TRUE, err |-> "None", hash_bytes |-> h.bytes,
              command_bytes |-> c.bytes \o BincodeSerialize(commands),
              commands |-> <<>>, hash |-> <<>>]

\* decode without the clear of the list
CommandDecoderDecodeAppend(prev, bytes) ==
    LET list(d, l) ==
            [ok |-> l.ok, err |-> IF l.ok THEN "None" ELSE "Bincode",
             commands |-> prev \o [i \in 1..Len(l.commands) |->
                                      [conv |-> d.msg.conv, frame |-> d.msg.frame,
                                       command |-> l.commands[i]]]]
        decoded(d) ==
            IF ~d.ok THEN [ok |-> FALSE, err |-> d.err, commands |-> prev]
            ELSE IF d.msg.type # "Command"
            THEN [ok |-> FALSE, err |-> "PacketBroken", commands |-> prev]
            ELSE list(d, BincodeDeserialize(SubSeq(bytes, d.offset + 1, Len(bytes))))
    IN  decoded(NetMessageDecode(bytes))

\* prev is the decoder's list before the call; the result holds the list
\* after it: untouched when the outer frame is rejected, else cleared and
\* refilled with the commands read, up to a failure of bincode
CommandDecoderDecode(prev, bytes) ==
    LET list(d, l) ==
            [ok |-> l.ok, err |-> IF l.ok THEN "None" ELSE "Bincode",
             commands |-> [i \in 1..Len(l.commands) |->
                              [conv |-> d.msg.conv, frame |-> d.msg.frame,
                               command |-> l.commands[i]]]]
        decoded(d) ==
            IF ~d.ok THEN [ok |-> FALSE, err |-> d.err, commands |-> prev]
            ELSE IF d.msg.type # "Command"
            THEN [ok |-> FALSE, err |-> "PacketBroken", commands |-> prev]
            ELSE list(d, BincodeDeserialize(SubSeq(bytes, d.offset + 1, Len(bytes))))
    IN  decoded(NetMessageDecode(bytes))

(***************************************************************************)
(* KCPError::cause: the finish cause of an error. RemoteFinished(c) is the *)
(* record [kind |-> "RemoteFinished", cause |-> c]; any other error is     *)
(* [kind |-> k, cause |-> "None"]; "Other" is an error that is no KCPError.*)
(***************************************************************************)
KErr(k) == [kind |-> k, cause |-> "None"]
NoErr == KErr("None")
RemoteFinished(c) == [kind |-> "RemoteFinished", cause |-> c]

\* the cause of RemoteFinished taken to be GameOver
KCPErrorCauseFixed(e) ==
    CASE e.kind \in {"IO", "Timeout", "WindowExhausted"} -> "NetworkBroken"
      [] e.kind \in {"PacketBroken", "PacketTooShort", "PacketTooLong", "UnexpectedPacket"}
            -> "InvalidPacket"
      [] e.kind \in {"GameOver", "RemoteFinished"} -> "GameOver"
      [] OTHER -> "ClientError"

\* Timeout listed with the client errors
KCPErrorCauseTimeoutClient(e) ==
    CASE e.kind \in {"IO", "WindowExhausted"} -> "NetworkBroken"
      [] e.kind \in {"PacketBroken", "PacketTooShort", "PacketTooLong", "UnexpectedPacket"}
            -> "InvalidPacket"
      [] e.kind = "GameOver" -> "GameOver"
      [] e.kind = "RemoteFinished" -> e.cause
      [] OTHER -> "ClientError"

KCPErrorCause(e) ==
    CASE e.kind \in {"IO", "Timeout", "WindowExhausted"} -> "NetworkBroken"
      [] e.kind \in {"PacketBroken", "PacketTooShort", "PacketTooLong", "UnexpectedPacket"}
            -> "InvalidPacket"
      [] e.kind = "GameOver" -> "GameOver"
      [] e.kind = "RemoteFinished" -> e.cause
      [] e.kind \in {"Protobuf", "Bincode", "KCP", "Unexpected", "InvalidFrame", "MessageTooLong"}
            -> "ClientError"
      [] OTHER -> "ClientError"

(***************************************************************************)
(* NetChan (src/src/chan.rs). The channel is the record NetChanImpl        *)
(*   [cache_stack, input_queue, output: [commands, states], finish_cause]; *)
(* every operation runs under the channel's mutex, so it is one atomic     *)
(* function of the channel. A queue entry is [kind |-> "Input", input] or  *)
(* [kind |-> "Finish"]; the states map is a function on the convs written. *)
(***************************************************************************)
NetInputNew == [frame |-> 0, commands |-> <<>>, hash |-> <<>>]

\* a buffer returned to the cache as it is
NetInputClearKept(input) == input

NetInputClear(input) == [input EXCEPT !.frame = 0, !.commands = <<>>, !.hash = <<>>]

EmptyStates == [c \in {} |-> "Initing"]

NetOutputNew == [commands |-> <<>>, states |-> EmptyStates]

NetOutputClear(output) == [output EXCEPT !.commands = <<>>, !.states = EmptyStates]

WrapInput(input) == [kind |-> "Input", input |-> input]
WrapFinish == [kind |-> "Finish", input |-> NetInputNew]

NetChanNew ==
    [cache_stack |-> <<>>, input_queue |-> <<>>, output |-> NetOutputNew,
     finish_cause |-> "None"]

\* send_input as if the channel were never finished
ChanSendInputNoCheck(ch, frame, commands, hash) ==
    LET n == Len(ch.cache_stack)
        popped == IF n > 0 THEN ch.cache_stack[n] ELSE NetInputNew
        input == [frame |-> frame,
                  commands |-> popped.commands \o commands,
                  hash |-> popped.hash \o hash]
    IN  [chan |-> [ch EXCEPT !.cache_stack = IF n > 0 THEN SubSeq(@, 1, n - 1) ELSE @,
                             !.input_queue = Append(@, WrapInput(input))],
         ret |-> "Ok"]

\* [chan, ret]: ret is "Ok" or the stored cause
ChanSendInput(ch, frame, commands, hash) ==
    IF ch.finish_cause # "None" THEN [chan |-> ch, ret |-> ch.finish_cause]
    ELSE LET n == Len(ch.cache_stack)
             popped == IF n > 0 THEN ch.cache_stack[n] ELSE NetInputNew
             input == [frame |-> frame,
                       commands |-> popped.commands \o commands,
                       hash |-> popped.hash \o hash]
         IN  [chan |-> [ch EXCEPT !.cache_stack = IF n > 0 THEN SubSeq(@, 1, n - 1) ELSE @,
                                  !.input_queue = Append(@, WrapInput(input))],
              ret |-> "Ok"]

\* recv_input returning the buffer to the cache whatever the cache holds
ChanRecvInputUnbounded(ch, frame, commands, hash) ==
    IF ch.input_queue = <<>>
    THEN [chan |-> ch, state |-> "Empty", frame |-> frame, commands |-> commands, hash |-> hash]
    ELSE LET head == Head(ch.input_queue)
             popped == [ch EXCEPT !.input_queue = Tail(@)]
         IN  IF head.kind = "Finish"
             THEN [chan |-> popped, state |-> "Finish", frame |-> frame,
                   commands |-> commands, hash |-> hash]
             ELSE [chan |-> [popped EXCEPT !.cache_stack = Append(@, NetInputClear(head.input))],
                   state |-> "NonEmpty",
                   frame |-> head.input.frame,
                   commands |-> commands \o head.input.commands,
                   hash |-> hash \o head.input.hash]

\* [chan, state, frame, commands, hash]: the caller's frame and buffers
\* after the call
ChanRecvInput(ch, frame, commands, hash) ==
    IF ch.input_queue = <<>>
    THEN [chan |-> ch, state |-> "Empty", frame |-> frame, commands |-> commands, hash |-> hash]
    ELSE LET head == Head(ch.input_queue)
             popped == [ch EXCEPT !.input_queue = Tail(@)]
         IN  IF head.kind = "Finish"
             THEN [chan |-> popped, state |-> "Finish", frame |-> frame,
                   commands |-> commands, hash |-> hash]
             ELSE [chan |-> IF CACHE_CAP > Len(popped.cache_stack)
                            THEN [popped EXCEPT !.cache_stack = Append(@, NetInputClear(head.input))]
                            ELSE popped,
                   state |-> "NonEmpty",
                   frame |-> head.input.frame,
                   commands |-> commands \o head.input.commands,
                   hash |-> hash \o head.input.hash]

ChanSendOutputCommands(ch, commands) == [ch EXCEPT !.output.commands = @ \o commands]

\* send_output_states keeping the state a conv already has
ChanSendOutputStatesFirst(ch, conv, st) ==
    [ch EXCEPT !.output.states =
        [c \in (DOMAIN @) \cup {conv} |-> IF c \in DOMAIN @ THEN @[c] ELSE st]]

ChanSendOutputStates(ch, conv, st) ==
    [ch EXCEPT !.output.states =
        [c \in (DOMAIN @) \cup {conv} |-> IF c = conv THEN st ELSE @[c]]]

\* recv_output that leaves the accumulator as it is
ChanRecvOutputKept(ch, commands, states) ==
    IF ch.finish_cause # "None"
    THEN [chan |-> ch, ret |-> ch.finish_cause, commands |-> commands, states |-> states]
    ELSE [chan |-> ch, ret |-> "Ok",
          commands |-> commands \o ch.output.commands, states |-> ch.output.states]

\* [chan, ret, commands, states]: the caller's buffers after the call
ChanRecvOutput(ch, commands, states) ==
    IF ch.finish_cause # "None"
    THEN [chan |-> ch, ret |-> ch.finish_cause, commands |-> commands, states |-> states]
    ELSE [chan |-> [ch EXCEPT !.output = NetOutputClear(@)], ret |-> "Ok",
          commands |-> commands \o ch.output.commands, states |-> ch.output.states]

\* game_over that enqueues no marker
ChanGameOverNoMarker(ch) ==
    IF ch.finish_cause # "None" THEN [chan |-> ch, ret |-> ch.finish_cause]
    ELSE [chan |-> ch, ret |-> "Ok"]

\* game_over that poisons the channel
ChanGameOverPoisoning(ch) ==
    IF ch.finish_cause # "None" THEN [chan |-> ch, ret |-> ch.finish_cause]
    ELSE [chan |-> [ch EXCEPT !.input_queue = Append(@, WrapFinish),
                              !.finish_cause = "GameOver"],
          ret |-> "Ok"]

ChanGameOver(ch) ==
    IF ch.finish_cause # "None" THEN [chan |-> ch, ret |-> ch.finish_cause]
    ELSE [chan |-> [ch EXCEPT !.input_queue = Append(@, WrapFinish)], ret |-> "Ok"]

\* finish that stores nothing
ChanFinishDropped(ch, cause) == ch

ChanFinish(ch, cause) == [ch EXCEPT !.finish_cause = cause]

(***************************************************************************)
(* The transport (NetKCP) as the worker uses it: send_kcp, recv_kcp and    *)
(* update_udp may each fail; recv_kcp otherwise yields the next payload    *)
(* the server sent, or nothing.                                            *)
(***************************************************************************)
SendKcpFailures == {KErr("WindowExhausted")}
RecvKcpFailures == {KErr("KCP")}
UpdateUdpFailures == {KErr("IO")}

(***************************************************************************)
(* The inputs of the model: what the game thread submits and what the      *)
(* server sends.                                                           *)
(***************************************************************************)
CmdAaa == [variant |-> 0, args |-> <<22, 33>>]
CmdBbb == [variant |-> 1, args |-> <<5, 6, 7>>]

\* (commands, hash) pairs of a send_input call
InputPayloads == { <<<<>>, <<>>>>, <<<<CmdAaa, CmdBbb>>, <<9>>>> }

InputFrames == 1..MaxFrame

Frame(msg) == NetMessageEncode(msg, <<>>).bytes

\* a Command frame of PeerConv followed by its serialized list
CommandPacket(fr, cmds) ==
    Frame([type |-> "Command", conv |-> PeerConv, frame |-> fr]) \o BincodeSerialize(cmds)

ConnectMsg == [type |-> "Connect", room_id |-> <<114>>, player_id |-> <<112>>, password |-> <<120>>]

\* the payloads recv_kcp may yield: messages of the server, well formed, and
\* ill-formed packets (a length prefix past the end, a payload protobuf
\* rejects, a command list bincode rejects)
Packets ==
    { Frame([type |-> "Accept"]),
      Frame([type |-> "Start"]),
      Frame([type |-> "State", conv |-> PeerConv, state |-> "Running"]),
      Frame([type |-> "State", conv |-> SelfConv, state |-> "Stopped"]),
      Frame([type |-> "Finish", cause |-> "GameOver"]),
      Frame([type |-> "Finish", cause |-> "ServerDefined"]),
      Frame([type |-> "Hash", frame |-> 1, hash |-> <<9>>]),
      CommandPacket(1, <<CmdAaa, CmdBbb>>),
      CommandPacket(2, <<>>),
      <<7, 0, 100>>,
      <<5, 0, 1, 8>>,
      Frame([type |-> "Command", conv |-> PeerConv, frame |-> 1]) \o <<1, 0, 0>> }

(***************************************************************************)
(* State.                                                                  *)
(***************************************************************************)
VARIABLES
    chan,         \* the NetChanImpl shared by the game thread and the worker
    pc,           \* where the worker is in run()
    state,        \* NetWorker.state
    frame,        \* NetWorker.frame
    ce_commands,  \* cmd_encoder's staging commands
    ce_hash,      \* cmd_encoder's staging hash
    err,          \* the error run() is about to pass to finish()
    delay,        \* finish()'s delay argument
    now,          \* milliseconds since started_at
    stopped_at,   \* NetWorker.stopped_at, whole seconds since started_at
    updated_at,   \* NetWorker.updated_at, milliseconds since started_at
    nrecv,        \* payloads recv_kcp has yielded
    sent,         \* what send_kcp accepted, in order: [bytes, state at the send]
    g_ret,        \* what the game thread's last call returned: "Ok" or the cause
    g_commands,   \* the buffers a caller of recv_output keeps from call to call
    g_states,
    ninputs,      \* send_input calls that returned Ok
    nreceived,    \* recv_input calls that returned NonEmpty
    ngameover,    \* game_over calls that returned Ok
    marker_at,    \* ninputs at the first game_over that returned Ok, -1 before it
    finish_calls, \* NetChan::finish calls
    self_writes,  \* send_output_states(self.conv, _) calls
    submitted,    \* the triples of the send_input calls that returned Ok, in order
    received,     \* the triples recv_input returned with NonEmpty, in order
    out_sent,     \* the commands handed to send_output_commands, in order
    out_drained,  \* the commands recv_output appended to its caller's list, in order
    cd_commands,  \* a CommandDecoder's commands
    codec_call,   \* the last call on the codec: its arguments and its result
    tick_current, \* update(): current, the milliseconds since started_at at the top of the loop
    tick_next     \* update(): next, the I/O deadline in milliseconds since started_at

chanVars == <<chan>>
workerVars == <<pc, state, frame, ce_commands, ce_hash, err, delay, now, stopped_at,
                updated_at, nrecv, sent, nreceived, finish_calls, self_writes>>
gameVars == <<g_ret, g_commands, g_states, ninputs, ngameover, marker_at>>
callerVars == <<submitted, received, out_sent, out_drained>>
codecVars == <<cd_commands, codec_call>>
tickVars == <<tick_current, tick_next>>
vars == <<chan, pc, state, frame, ce_commands, ce_hash, err, delay, now, stopped_at,
          updated_at, nrecv, sent, g_ret, g_commands, g_states, ninputs, nreceived,
          ngameover, marker_at, finish_calls, self_writes, submitted, received,
          out_sent, out_drained, cd_commands, codec_call, tick_current, tick_next>>

\* a call on the codec: op is "encode" (NetMessage::encode of msg onto
\* bytes), "decode" (NetMessage::decode of bytes) or "decode_commands"
\* (CommandDecoder::decode of bytes, the decoder holding prev); ok, err,
\* out_msg, out_bytes and n are the result
NoCall ==
    [op |-> "none", msg |-> [type |-> "Unknown"], bytes |-> <<>>, prev |-> <<>>,
     ok |-> TRUE, err |-> "None", out_msg |-> [type |-> "Unknown"], out_bytes |-> <<>>, n |-> 0]

\* the worker is constructed 10 years before its stopped_at (worker.rs:61)
FAR_FUTURE_SECS == 315360000

Init ==
    /\ chan = NetChanNew
    /\ pc = "start"
    /\ state = "Initing"
    /\ frame = 0
    /\ ce_commands = <<>>
    /\ ce_hash = <<>>
    /\ err = NoErr
    /\ delay = FALSE
    /\ now = 0
    /\ stopped_at = FAR_FUTURE_SECS
    /\ updated_at = 0
    /\ nrecv = 0
    /\ sent = <<>>
    /\ g_ret = "Ok"
    /\ g_commands = <<>>
    /\ g_states = EmptyStates
    /\ ninputs = 0
    /\ nreceived = 0
    /\ ngameover = 0
    /\ marker_at = -1
    /\ finish_calls = 0
    /\ self_writes = 0
    /\ submitted = <<>>
    /\ received = <<>>
    /\ out_sent = <<>>
    /\ out_drained = <<>>
    /\ cd_commands = <<>>
    /\ codec_call = NoCall
    /\ tick_current = 0
    /\ tick_next = 0

(***************************************************************************)
(* The game thread: its three calls on the channel. It hands recv_output   *)
(* fresh buffers and consumes what they hold at once.                      *)
(***************************************************************************)
GameSendInput ==
    /\ ninputs < MaxInputs
    /\ \E f \in InputFrames, p \in InputPayloads :
          LET r == ChanSendInput(chan, f, p[1], p[2])
          IN  /\ chan' = r.chan
              /\ g_ret' = r.ret
              /\ ninputs' = IF r.ret = "Ok" THEN ninputs + 1 ELSE ninputs
    /\ UNCHANGED <<g_commands, g_states, ngameover, marker_at>>
    /\ UNCHANGED workerVars
    /\ UNCHANGED callerVars
    /\ UNCHANGED codecVars
    /\ UNCHANGED tickVars

GameRecvOutput ==
    /\ LET r == ChanRecvOutput(chan, <<>>, EmptyStates)
       IN  /\ chan' = r.chan
           /\ g_ret' = r.ret
    /\ UNCHANGED <<g_commands, g_states, ninputs, ngameover, marker_at>>
    /\ UNCHANGED workerVars
    /\ UNCHANGED callerVars
    /\ UNCHANGED codecVars
    /\ UNCHANGED tickVars

GameGameOver ==
    /\ ngameover < MaxGameOver
    /\ LET r == ChanGameOver(chan)
       IN  /\ chan' = r.chan
           /\ g_ret' = r.ret
           /\ ngameover' = IF r.ret = "Ok" THEN ngameover + 1 ELSE ngameover
           /\ marker_at' = IF r.ret = "Ok" /\ marker_at = -1 THEN ninputs ELSE marker_at
    /\ UNCHANGED <<g_commands, g_states, ninputs>>
    /\ UNCHANGED workerVars
    /\ UNCHANGED callerVars
    /\ UNCHANGED codecVars
    /\ UNCHANGED tickVars

(***************************************************************************)
(* The worker (src/src/worker.rs).                                         *)
(***************************************************************************)
\* entries of the send log for the packets a step sent in state st
SentIn(st, packets) == [i \in 1..Len(packets) |-> [bytes |-> packets[i], state |-> st]]

\* run() up to the loop: connect() encodes and sends the Connect; a
\* failure goes to finish(err, false)
ConnectResults ==
    LET e == NetMessageEncode(ConnectMsg, <<>>)
    IN  IF ~e.ok THEN {[err |-> KErr(e.err), sends |-> <<>>]}
        ELSE {[err |-> f, sends |-> <<>>] : f \in SendKcpFailures}
                \cup {[err |-> NoErr, sends |-> <<e.bytes>>]}

Run ==
    /\ pc = "start"
    /\ \E o \in ConnectResults :
          /\ sent' = sent \o SentIn(state, o.sends)
          /\ err' = o.err
          /\ pc' = IF o.err = NoErr THEN "input" ELSE "finish"
    /\ delay' = FALSE
    /\ UNCHANGED <<chan, state, frame, ce_commands, ce_hash, now, stopped_at, updated_at,
                   nrecv, nreceived, finish_calls, self_writes>>
    /\ UNCHANGED gameVars
    /\ UNCHANGED callerVars
    /\ UNCHANGED codecVars
    /\ UNCHANGED tickVars

\* an outcome of handle_input_impl: the error, self.frame and the staging
\* buffers after it, and the packets send_kcp accepted
InputOutcome(e, f, c, h, s) ==
    [err |-> e, frame |-> f, commands |-> c, hash |-> h, sends |-> s]

\* the Command frame sent ahead of the Hash frame
EncodeAndSendSwapped(commands, hash, fr) ==
    LET e == CommandEncoderEncode(commands, hash, fr)
    IN  {InputOutcome(NoErr, fr, e.commands, e.hash, <<e.command_bytes, e.hash_bytes>>)}

\* the Running arm once the frame is accepted: encode, send_kcp of the
\* Hash frame, send_kcp of the Command frame, each of which may fail
EncodeAndSend(commands, hash, fr) ==
    LET e == CommandEncoderEncode(commands, hash, fr)
    IN  IF ~e.ok THEN {InputOutcome(KErr(e.err), fr, e.commands, e.hash, <<>>)}
        ELSE {InputOutcome(f, fr, e.commands, e.hash, <<>>) : f \in SendKcpFailures}
               \cup {InputOutcome(f, fr, e.commands, e.hash, <<e.hash_bytes>>) :
                       f \in SendKcpFailures}
               \cup {InputOutcome(NoErr, fr, e.commands, e.hash,
                                  <<e.hash_bytes, e.command_bytes>>)}

\* a frame equal to the last accepted one let through
HandleInputRunningLax(cur, commands, hash, fr) ==
    IF fr < cur THEN {InputOutcome(KErr("InvalidFrame"), cur, commands, hash, <<>>)}
    ELSE EncodeAndSend(commands, hash, fr)

\* the Running arm of handle_input_impl
HandleInputRunning(cur, commands, hash, fr) ==
    IF fr <= cur THEN {InputOutcome(KErr("InvalidFrame"), cur, commands, hash, <<>>)}
    ELSE EncodeAndSend(commands, hash, fr)

\* any input let through before Running
HandleInputWaitingLax(cur, commands, hash) ==
    {InputOutcome(NoErr, cur, commands, hash, <<>>)}

\* the Initing | Waiting arm of handle_input_impl
HandleInputWaiting(cur, commands, hash) ==
    IF commands # <<>> \/ hash # <<>>
    THEN {InputOutcome(KErr("Unexpected"), cur, commands, hash, <<>>)}
    ELSE {InputOutcome(NoErr, cur, commands, hash, <<>>)}

\* every state handled like Running
HandleInputImplEager(st, cur, commands, hash, fr) ==
    HandleInputRunning(cur, commands, hash, fr)

\* handle_input_impl on the staging buffers recv_input filled: its
\* possible outcomes
HandleInputImpl(st, cur, commands, hash, fr) ==
    CASE st \in {"Initing", "Waiting"} -> HandleInputWaiting(cur, commands, hash)
      [] st = "Running" -> HandleInputRunning(cur, commands, hash, fr)
      [] OTHER -> {InputOutcome(NoErr, cur, commands, hash, <<>>)}

\* one iteration of handle_input's loop: recv_input, then handle_input_impl
HandleInput ==
    /\ pc = "input"
    /\ LET r == ChanRecvInput(chan, 0, ce_commands, ce_hash)
       IN  /\ chan' = r.chan
           /\ CASE r.state = "Empty" ->
                    /\ pc' = "output"
                    /\ UNCHANGED <<frame, ce_commands, ce_hash, err, delay, sent, nreceived>>
                [] r.state = "Finish" ->
                    /\ pc' = "stopping"
                    /\ UNCHANGED <<frame, ce_commands, ce_hash, err, delay, sent, nreceived>>
                [] OTHER ->
                    /\ nreceived' = nreceived + 1
                    /\ \E o \in HandleInputImpl(state, frame, r.commands, r.hash, r.frame) :
                          /\ frame' = o.frame
                          /\ ce_commands' = o.commands
                          /\ ce_hash' = o.hash
                          /\ sent' = sent \o SentIn(state, o.sends)
                          /\ err' = o.err
                          /\ pc' = IF o.err = NoErr THEN "input" ELSE "finish"
                          /\ delay' = TRUE
    /\ UNCHANGED <<state, now, stopped_at, updated_at, nrecv, finish_calls, self_writes>>
    /\ UNCHANGED gameVars
    /\ UNCHANGED callerVars
    /\ UNCHANGED codecVars
    /\ UNCHANGED tickVars

\* set_self_state: [state, chan]
SetSelfState(ch, conv, st) == [state |-> st, chan |-> ChanSendOutputStates(ch, conv, st)]

\* set_state without the test of the conv
SetStateAny(ch, self, conv, st) == ChanSendOutputStates(ch, conv, st)

\* set_state: the channel after it
SetState(ch, self, conv, st) == IF conv # self THEN ChanSendOutputStates(ch, conv, st) ELSE ch

\* the Finish arm of handle_input going on with the loop after
\* set_self_state(Stopped)
SetStoppedContinues ==
    /\ pc = "stopping"
    /\ LET r == SetSelfState(chan, SelfConv, "Stopped")
       IN  /\ state' = r.state
           /\ chan' = r.chan
    /\ self_writes' = self_writes + 1
    /\ err' = NoErr
    /\ delay' = TRUE
    /\ pc' = "input"
    /\ UNCHANGED <<frame, ce_commands, ce_hash, now, stopped_at, updated_at, nrecv,
                   sent, nreceived, finish_calls>>
    /\ UNCHANGED gameVars
    /\ UNCHANGED callerVars
    /\ UNCHANGED codecVars
    /\ UNCHANGED tickVars

\* the Finish arm of handle_input: set_self_state(Stopped), then GameOver
SetStopped ==
    /\ pc = "stopping"
    /\ LET r == SetSelfState(chan, SelfConv, "Stopped")
       IN  /\ state' = r.state
           /\ chan' = r.chan
    /\ self_writes' = self_writes + 1
    /\ err' = KErr("GameOver")
    /\ delay' = TRUE
    /\ pc' = "finish"
    /\ UNCHANGED <<frame, ce_commands, ce_hash, now, stopped_at, updated_at, nrecv,
                   sent, nreceived, finish_calls>>
    /\ UNCHANGED gameVars
    /\ UNCHANGED callerVars
    /\ UNCHANGED codecVars
    /\ UNCHANGED tickVars

IsMessageCommand(bytes) ==
    IF Len(bytes) < KCP_MIN_PACKET THEN FALSE ELSE NetTypeOf(bytes[1]) = "Command"

\* handle_output_impl accepting Start in Initing already
HandleOutputImplEarlyStart(st, bytes, ch, conv) ==
    LET same == [err |-> NoErr, state |-> st, chan |-> ch, writes |-> 0, stamped |-> FALSE]
        fail(e) == [same EXCEPT !.err = e]
        self(new) == [same EXCEPT !.state = SetSelfState(ch, conv, new).state,
                                  !.chan = SetSelfState(ch, conv, new).chan,
                                  !.writes = 1]
        commands(c) ==
            IF ~c.ok THEN [same EXCEPT !.err = KErr(c.err), !.stamped = TRUE]
            ELSE [same EXCEPT !.chan = ChanSendOutputCommands(ch, c.commands),
                              !.stamped = TRUE]
        message(d) ==
            CASE st = "Initing" ->
                    IF ~d.ok THEN fail(KErr(d.err))
                    ELSE CASE d.msg.type = "Accept" -> self("Waiting")
                           [] d.msg.type = "Start" -> self("Running")
                           [] d.msg.type = "Finish" -> fail(RemoteFinished(d.msg.cause))
                           [] OTHER -> fail(KErr("UnexpectedPacket"))
              [] st = "Waiting" ->
                    IF ~d.ok THEN fail(KErr(d.err))
                    ELSE CASE d.msg.type = "State" ->
                                [same EXCEPT !.chan = SetState(ch, conv, d.msg.conv, d.msg.state)]
                           [] d.msg.type = "Start" -> self("Running")
                           [] d.msg.type = "Finish" -> fail(RemoteFinished(d.msg.cause))
                           [] OTHER -> fail(KErr("UnexpectedPacket"))
              [] st = "Running" ->
                    IF IsMessageCommand(bytes)
                    THEN commands(CommandDecoderDecode(<<>>, bytes))
                    ELSE IF ~d.ok THEN fail(KErr(d.err))
                    ELSE CASE d.msg.type = "State" ->
                                [same EXCEPT !.chan = SetState(ch, conv, d.msg.conv, d.msg.state)]
                           [] d.msg.type = "Finish" -> fail(RemoteFinished(d.msg.cause))
                           [] OTHER -> fail(KErr("UnexpectedPacket"))
              [] OTHER -> same
    IN  message(NetMessageDecode(bytes))

\* handle_output_impl without the Command path of Running: every payload
\* is decoded as an outer frame
HandleOutputImplNoFastPath(st, bytes, ch, conv) ==
    LET same == [err |-> NoErr, state |-> st, chan |-> ch, writes |-> 0, stamped |-> FALSE]
        fail(e) == [same EXCEPT !.err = e]
        self(new) == [same EXCEPT !.state = SetSelfState(ch, conv, new).state,
                                  !.chan = SetSelfState(ch, conv, new).chan,
                                  !.writes = 1]
        message(d) ==
            CASE st = "Initing" ->
                    IF ~d.ok THEN fail(KErr(d.err))
                    ELSE CASE d.msg.type = "Accept" -> self("Waiting")
                           [] d.msg.type = "Finish" -> fail(RemoteFinished(d.msg.cause))
                           [] OTHER -> fail(KErr("UnexpectedPacket"))
              [] st = "Waiting" ->
                    IF ~d.ok THEN fail(KErr(d.err))
                    ELSE CASE d.msg.type = "State" ->
                                [same EXCEPT !.chan = SetState(ch, conv, d.msg.conv, d.msg.state)]
                           [] d.msg.type = "Start" -> self("Running")
                           [] d.msg.type = "Finish" -> fail(RemoteFinished(d.msg.cause))
                           [] OTHER -> fail(KErr("UnexpectedPacket"))
              [] st = "Running" ->
                    IF ~d.ok THEN fail(KErr(d.err))
                    ELSE CASE d.msg.type = "State" ->
                                [same EXCEPT !.chan = SetState(ch, conv, d.msg.conv, d.msg.state)]
                           [] d.msg.type = "Finish" -> fail(RemoteFinished(d.msg.cause))
                           [] OTHER -> fail(KErr("UnexpectedPacket"))
              [] OTHER -> same
    IN  message(NetMessageDecode(bytes))

\* handle_output_impl on the payload in kcp_buffer:
\* [err, state, chan, writes, stamped]; writes counts set_self_state calls,
\* stamped says whether updated_at was set
HandleOutputImpl(st, bytes, ch, conv) ==
    LET same == [err |-> NoErr, state |-> st, chan |-> ch, writes |-> 0, stamped |-> FALSE]
        fail(e) == [same EXCEPT !.err = e]
        self(new) == [same EXCEPT !.state = SetSelfState(ch, conv, new).state,
                                  !.chan = SetSelfState(ch, conv, new).chan,
                                  !.writes = 1]
        commands(c) ==
            IF ~c.ok THEN [same EXCEPT !.err = KErr(c.err), !.stamped = TRUE]
            ELSE [same EXCEPT !.chan = ChanSendOutputCommands(ch, c.commands),
                              !.stamped = TRUE]
        message(d) ==
            CASE st = "Initing" ->
                    IF ~d.ok THEN fail(KErr(d.err))
                    ELSE CASE d.msg.type = "Accept" -> self("Waiting")
                           [] d.msg.type = "Finish" -> fail(RemoteFinished(d.msg.cause))
                           [] OTHER -> fail(KErr("UnexpectedPacket"))
              [] st = "Waiting" ->
                    IF ~d.ok THEN fail(KErr(d.err))
                    ELSE CASE d.msg.type = "State" ->
                                [same EXCEPT !.chan = SetState(ch, conv, d.msg.conv, d.msg.state)]
                           [] d.msg.type = "Start" -> self("Running")
                           [] d.msg.type = "Finish" -> fail(RemoteFinished(d.msg.cause))
                           [] OTHER -> fail(KErr("UnexpectedPacket"))
              [] st = "Running" ->
                    IF IsMessageCommand(bytes)
                    THEN commands(CommandDecoderDecode(<<>>, bytes))
                    ELSE IF ~d.ok THEN fail(KErr(d.err))
                    ELSE CASE d.msg.type = "State" ->
                                [same EXCEPT !.chan = SetState(ch, conv, d.msg.conv, d.msg.state)]
                           [] d.msg.type = "Finish" -> fail(RemoteFinished(d.msg.cause))
                           [] OTHER -> fail(KErr("UnexpectedPacket"))
              [] OTHER -> same
    IN  message(NetMessageDecode(bytes))

\* whole seconds elapsed since a time of at_secs whole seconds, zero when
\* that time is still to come (elapsed().unwrap_or(ZERO).as_secs())
ElapsedSecs(at_secs, t) == IF t \div 1000 < at_secs THEN 0 ELSE (t \div 1000) - at_secs

\* handle_timeout without the deadline of Initing
HandleTimeoutNoConnect(st, t, stopped) ==
    CASE st = "Initing" -> NoErr
      [] st = "Waiting" ->
            IF ElapsedSecs(0, t) > START_TIMEOUT THEN KErr("Timeout") ELSE NoErr
      [] st = "Running" -> NoErr
      [] OTHER ->
            IF ElapsedSecs(stopped, t) > UPDATE_TIMEOUT THEN KErr("Timeout") ELSE NoErr

\* handle_timeout with deadlines that include the limit (>= for >)
HandleTimeoutInclusive(st, t, stopped) ==
    CASE st = "Initing" ->
            IF ElapsedSecs(0, t) >= CONNECT_TIMEOUT THEN KErr("Timeout") ELSE NoErr
      [] st = "Waiting" ->
            IF ElapsedSecs(0, t) >= START_TIMEOUT THEN KErr("Timeout") ELSE NoErr
      [] st = "Running" -> NoErr
      [] OTHER ->
            IF ElapsedSecs(stopped, t) >= UPDATE_TIMEOUT THEN KErr("Timeout") ELSE NoErr

\* handle_timeout with an UPDATE_TIMEOUT deadline in Running
HandleTimeoutRunningDeadline(st, t, stopped) ==
    CASE st = "Initing" ->
            IF ElapsedSecs(0, t) > CONNECT_TIMEOUT THEN KErr("Timeout") ELSE NoErr
      [] st = "Waiting" ->
            IF ElapsedSecs(0, t) > START_TIMEOUT THEN KErr("Timeout") ELSE NoErr
      [] st = "Running" ->
            IF ElapsedSecs(0, t) > UPDATE_TIMEOUT THEN KErr("Timeout") ELSE NoErr
      [] OTHER ->
            IF ElapsedSecs(stopped, t) > UPDATE_TIMEOUT THEN KErr("Timeout") ELSE NoErr

\* handle_timeout: the error it returns at time t
HandleTimeout(st, t, stopped) ==
    CASE st = "Initing" ->
            IF ElapsedSecs(0, t) > CONNECT_TIMEOUT THEN KErr("Timeout") ELSE NoErr
      [] st = "Waiting" ->
            IF ElapsedSecs(0, t) > START_TIMEOUT THEN KErr("Timeout") ELSE NoErr
      [] st = "Running" -> NoErr
      [] OTHER ->
            IF ElapsedSecs(stopped, t) > UPDATE_TIMEOUT THEN KErr("Timeout") ELSE NoErr

\* one iteration of handle_output's loop: recv_kcp fails, or yields a
\* payload that handle_output_impl handles
HandleOutput ==
    /\ pc = "output"
    /\ \/ /\ \E f \in RecvKcpFailures : err' = f
          /\ pc' = "finish"
          /\ UNCHANGED <<chan, state, updated_at, nrecv, self_writes>>
       \/ /\ nrecv < MaxMsgs
          /\ nrecv' = nrecv + 1
          /\ \E o \in {HandleOutputImpl(state, p, chan, SelfConv) : p \in Packets} :
                    /\ state' = o.state
                    /\ chan' = o.chan
                    /\ self_writes' = self_writes + o.writes
                    /\ updated_at' = IF o.stamped THEN now ELSE updated_at
                    /\ err' = o.err
                    /\ pc' = IF o.err = NoErr THEN "output" ELSE "finish"
    /\ delay' = TRUE
    /\ UNCHANGED <<frame, ce_commands, ce_hash, now, stopped_at, sent, nreceived, finish_calls>>
    /\ UNCHANGED gameVars
    /\ UNCHANGED callerVars
    /\ UNCHANGED codecVars
    /\ UNCHANGED tickVars

\* the rest of update()'s iteration once recv_kcp yields nothing, none of
\* which touches the channel: update_udp(next_at) does socket I/O until
\* the deadline, the clock moving on, and may fail; handle_timeout then
\* checks the deadline of the state
UpdateUdp ==
    /\ pc = "output"
    /\ \/ /\ \E f \in UpdateUdpFailures : err' = f
          /\ pc' = "finish"
          /\ UNCHANGED now
       \/ /\ \E d \in {0, TimeStep} : now' = Min(now + d, MaxTime)
          /\ err' = HandleTimeout(state, now', stopped_at)
          /\ pc' = IF err' = NoErr THEN "input" ELSE "finish"
    /\ delay' = TRUE
    /\ UNCHANGED <<chan, state, frame, ce_commands, ce_hash, stopped_at, updated_at,
                   nrecv, sent, nreceived, finish_calls, self_writes>>
    /\ UNCHANGED gameVars
    /\ UNCHANGED callerVars
    /\ UNCHANGED codecVars
    /\ UNCHANGED tickVars

\* finish() draining whatever its delay argument
WorkerFinishAlwaysDrain ==
    /\ pc = "finish"
    /\ chan' = ChanFinish(chan, KCPErrorCause(err))
    /\ finish_calls' = finish_calls + 1
    /\ err' = NoErr
    /\ pc' = "drain"
    /\ UNCHANGED <<state, frame, ce_commands, ce_hash, delay, now, stopped_at, updated_at,
                   nrecv, sent, nreceived, self_writes>>
    /\ UNCHANGED gameVars
    /\ UNCHANGED callerVars
    /\ UNCHANGED codecVars
    /\ UNCHANGED tickVars

\* finish(err, delay) up to the drain: the cause of err is stored on the
\* channel; err is consumed
WorkerFinish ==
    /\ pc = "finish"
    /\ chan' = ChanFinish(chan, KCPErrorCause(err))
    /\ finish_calls' = finish_calls + 1
    /\ err' = NoErr
    /\ pc' = IF delay THEN "drain" ELSE "done"
    /\ UNCHANGED <<state, frame, ce_commands, ce_hash, delay, now, stopped_at, updated_at,
                   nrecv, sent, nreceived, self_writes>>
    /\ UNCHANGED gameVars
    /\ UNCHANGED callerVars
    /\ UNCHANGED codecVars
    /\ UNCHANGED tickVars

\* finish()'s drain loop: update_kcp and update_udp until FINISH_TIMEOUT
\* has passed; then run() returns
Drain ==
    /\ pc = "drain"
    /\ now' = now + FINISH_TIMEOUT * 1000
    /\ pc' = "done"
    /\ UNCHANGED <<chan, state, frame, ce_commands, ce_hash, err, delay, stopped_at, updated_at,
                   nrecv, sent, nreceived, finish_calls, self_writes>>
    /\ UNCHANGED gameVars
    /\ UNCHANGED callerVars
    /\ UNCHANGED codecVars
    /\ UNCHANGED tickVars

WorkerNext ==
    \/ Run
    \/ HandleInput
    \/ SetStopped
    \/ HandleOutput
    \/ UpdateUdp
    \/ WorkerFinish
    \/ Drain

GameNext ==
    \/ GameSendInput
    \/ GameRecvOutput
    \/ GameGameOver

Next == WorkerNext \/ GameNext

Spec == Init /\ [][Next]_vars

\* the runs in which the transport delivers at most LiveMsgs payloads and
\* the clock stays within LiveTime, the worker thread always getting to run
LiveBound == nrecv <= LiveMsgs /\ now <= LiveTime

LiveNext ==
    \/ Run /\ LiveBound'
    \/ HandleInput /\ LiveBound'
    \/ SetStopped /\ LiveBound'
    \/ HandleOutput /\ LiveBound'
    \/ UpdateUdp /\ LiveBound'
    \/ WorkerFinish /\ LiveBound'
    \/ Drain /\ LiveBound'
    \/ GameSendInput /\ LiveBound'
    \/ GameRecvOutput /\ LiveBound'
    \/ GameGameOver /\ LiveBound'

LiveSpec == Init /\ [][LiveNext]_vars /\ WF_vars(WorkerNext /\ LiveBound')

(***************************************************************************)
(* The channel on its own: every operation of NetChan, called by any       *)
(* caller in any order. recv_input is called with empty buffers; the       *)
(* caller of recv_output keeps its buffers from call to call and may       *)
(* empty them between calls.                                               *)
(***************************************************************************)
\* the (frame, commands, hash) triples submitted
ChanInputs == { <<1, <<>>, <<>>>>, <<2, <<CmdAaa, CmdBbb>>, <<9>>>> }

\* the decoded commands handed to send_output_commands
ChanCommands == { <<[conv |-> PeerConv, frame |-> 1, command |-> CmdAaa]>> }

\* the (conv, state) pairs handed to send_output_states
ChanStates == { <<PeerConv, "Waiting">>, <<PeerConv, "Running">> }

\* the causes handed to finish
ChanCauses == { "GameOver", "ClientError" }

workerRest == <<pc, state, frame, ce_commands, ce_hash, err, delay, now, stopped_at,
                updated_at, nrecv, sent, ninputs, nreceived, marker_at, self_writes,
                out_sent, out_drained, cd_commands, codec_call, tick_current, tick_next>>

CallSendInput ==
    /\ Len(submitted) < MaxSubmitted
    /\ \E i \in ChanInputs :
          LET r == ChanSendInput(chan, i[1], i[2], i[3])
          IN  /\ chan' = r.chan
              /\ g_ret' = r.ret
              /\ submitted' = IF r.ret = "Ok" THEN Append(submitted, i) ELSE submitted
    /\ UNCHANGED <<g_commands, g_states, ngameover, finish_calls, received>>
    /\ UNCHANGED workerRest

CallRecvInput ==
    /\ LET r == ChanRecvInput(chan, 0, <<>>, <<>>)
       IN  /\ chan' = r.chan
           /\ received' = IF r.state = "NonEmpty"
                           THEN Append(received, <<r.frame, r.commands, r.hash>>)
                           ELSE received
    /\ UNCHANGED <<g_ret, g_commands, g_states, ngameover, finish_calls, submitted>>
    /\ UNCHANGED workerRest

CallSendOutputCommands ==
    /\ Len(chan.output.commands) + Len(g_commands) < MaxOutput
    /\ \E c \in ChanCommands : chan' = ChanSendOutputCommands(chan, c)
    /\ UNCHANGED <<g_ret, g_commands, g_states, ngameover, finish_calls, submitted, received>>
    /\ UNCHANGED workerRest

CallSendOutputStates ==
    /\ \E w \in ChanStates : chan' = ChanSendOutputStates(chan, w[1], w[2])
    /\ UNCHANGED <<g_ret, g_commands, g_states, ngameover, finish_calls, submitted, received>>
    /\ UNCHANGED workerRest

CallRecvOutput ==
    /\ LET r == ChanRecvOutput(chan, g_commands, g_states)
       IN  /\ chan' = r.chan
           /\ g_ret' = r.ret
           /\ g_commands' = r.commands
           /\ g_states' = r.states
    /\ UNCHANGED <<ngameover, finish_calls, submitted, received>>
    /\ UNCHANGED workerRest

\* the caller of recv_output empties its buffers
CallerClear ==
    /\ g_commands' = <<>>
    /\ g_states' = EmptyStates
    /\ UNCHANGED <<chan, g_ret, ngameover, finish_calls, submitted, received>>
    /\ UNCHANGED workerRest

CallGameOver ==
    /\ ngameover < MaxGameOver
    /\ LET r == ChanGameOver(chan)
       IN  /\ chan' = r.chan
           /\ g_ret' = r.ret
           /\ ngameover' = IF r.ret = "Ok" THEN ngameover + 1 ELSE ngameover
    /\ UNCHANGED <<g_commands, g_states, finish_calls, submitted, received>>
    /\ UNCHANGED workerRest

CallFinish ==
    /\ finish_calls < MaxFinish
    /\ \E c \in ChanCauses : chan' = ChanFinish(chan, c)
    /\ finish_calls' = finish_calls + 1
    /\ UNCHANGED <<g_ret, g_commands, g_states, ngameover, submitted, received>>
    /\ UNCHANGED workerRest

ChanNext ==
    \/ CallSendInput
    \/ CallRecvInput
    \/ CallSendOutputCommands
    \/ CallSendOutputStates
    \/ CallRecvOutput
    \/ CallerClear
    \/ CallGameOver
    \/ CallFinish

ChanSpec == Init /\ [][ChanNext]_vars

(***************************************************************************)
(* The codec on its own: NetMessage::encode, NetMessage::decode and        *)
(* CommandDecoder::decode called on any message or buffer, in any order,   *)
(* one CommandDecoder keeping its list from call to call.                  *)
(***************************************************************************)
\* n zero bytes
Zeros(n) == [i \in 1..n |-> 0]

CodecConvs == {0, SelfConv, 300}
CodecFrames == {0, 1, 200}

\* the messages encoded: the seven variants, fields at their defaults and
\* not, a Hash whose frame is exactly KCP_MAX_PACKET bytes and messages
\* whose frames are longer
CodecMsgs ==
    { ConnectMsg,
      [type |-> "Connect", room_id |-> <<>>, player_id |-> <<>>, password |-> <<>>],
      [type |-> "Connect", room_id |-> Zeros(KCP_MAX_PACKET), player_id |-> <<112>>,
       password |-> <<>>],
      [type |-> "Accept"],
      [type |-> "Start"] }
        \cup { [type |-> "State", conv |-> c, state |-> st] :
                    c \in CodecConvs, st \in PlayerStateSet }
        \cup { [type |-> "Finish", cause |-> c] : c \in FinishCauses }
        \cup { [type |-> "Command", conv |-> c, frame |-> f] :
                    c \in CodecConvs, f \in CodecFrames }
        \cup { [type |-> "Hash", frame |-> f, hash |-> h] :
                    f \in {0, 200},
                    h \in {<<>>, <<8, 7, 8, 6>>, Zeros(KCP_MAX_PACKET - 9),
                           Zeros(KCP_MAX_PACKET - 6), Zeros(KCP_MAX_PACKET - 5)} }

\* what encode is handed to append to
CodecBases == { <<>>, <<9, 9>> }

\* the command lists serialized after a Command frame
CodecLists == { <<>>, <<CmdAaa>>, <<CmdBbb, CmdAaa>>, <<CmdAaa, CmdBbb, CmdBbb>> }

\* a Command frame {conv, frame} followed by the serialized list cmds
CodecPayload(conv, fr, cmds) ==
    Frame([type |-> "Command", conv |-> conv, frame |-> fr]) \o BincodeSerialize(cmds)

\* the buffers decoded: what encode left for each message (a frame, or the
\* overlong buffer of a failure), frames followed by more bytes, frames
\* padded past KCP_MAX_PACKET, buffers of less than a header, unknown tags,
\* length fields past the end, payloads protobuf rejects
CodecBuffers ==
    { NetMessageEncode(m, <<>>).bytes : m \in CodecMsgs }
        \cup { Frame(ConnectMsg) \o <<1, 2>>,
               Frame([type |-> "Finish", cause |-> "GameOver"]) \o Zeros(KCP_MAX_PACKET),
               Frame([type |-> "Accept"]) \o Zeros(KCP_MAX_PACKET - KCP_MIN_PACKET),
               <<>>, <<6>>, <<0>>, <<6, 0>>, <<9, 9>>,
               <<0, 0, 0>>, <<8, 0, 0>>, <<255, 0, 0, 1>>, <<9, 0, 5>>,
               <<7, 0, 100>>, <<2, 0, 1>>, <<5, 0, 1, 8>>, <<3, 0, 2, 10, 0>>,
               Zeros(KCP_MAX_PACKET), Zeros(KCP_MAX_PACKET + 1),
               <<7, 255, 255>> \o Zeros(KCP_MAX_PACKET) }
        \cup Packets

\* the payloads handed to CommandDecoder::decode: Command frames with their
\* lists, and payloads it rejects (no Command frame, a list cut short, a
\* list with bytes left over, a list announcing more than it holds)
CodecPayloads ==
    { CodecPayload(c, f, l) : c \in CodecConvs \ {0}, f \in CodecFrames \ {0}, l \in CodecLists }
        \cup { CodecPayload(0, 0, <<CmdBbb>>),
               SubSeq(CodecPayload(SelfConv, 1, <<CmdAaa, CmdBbb>>), 1,
                      Len(CodecPayload(SelfConv, 1, <<CmdAaa, CmdBbb>>)) - 1),
               CodecPayload(SelfConv, 1, <<CmdAaa>>) \o <<0>>,
               Frame([type |-> "Command", conv |-> SelfConv, frame |-> 1])
                    \o LEBytes(2, 8) \o SerializeCommands(<<CmdBbb>>),
               Frame([type |-> "Command", conv |-> SelfConv, frame |-> 1]) }
        \cup Packets

restOfCodec == <<chanVars, workerVars, gameVars, callerVars, tickVars>>

CallEncode ==
    /\ \E m \in CodecMsgs, base \in CodecBases :
          \E r \in {NetMessageEncode(m, base)} :
              codec_call' = [NoCall EXCEPT !.op = "encode", !.msg = m, !.bytes = base,
                                           !.ok = r.ok, !.err = r.err,
                                           !.out_bytes = r.bytes, !.n = r.written]
    /\ UNCHANGED cd_commands
    /\ UNCHANGED restOfCodec

CallDecode ==
    /\ \E b \in CodecBuffers :
          \E r \in {NetMessageDecode(b)} :
              codec_call' = [NoCall EXCEPT !.op = "decode", !.bytes = b,
                                           !.ok = r.ok, !.err = r.err,
                                           !.out_msg = r.msg, !.n = r.offset]
    /\ UNCHANGED cd_commands
    /\ UNCHANGED restOfCodec

CallDecodeCommands ==
    /\ \E b \in CodecPayloads :
          \E r \in {CommandDecoderDecode(cd_commands, b)} :
              /\ cd_commands' = r.commands
              /\ codec_call' = [NoCall EXCEPT !.op = "decode_commands", !.bytes = b,
                                              !.prev = cd_commands,
                                              !.ok = r.ok, !.err = r.err]
    /\ UNCHANGED restOfCodec

\* the most CmdBbb a Command payload of frame 1 holds within KCP_MAX_PACKET
FittingCommands ==
    (KCP_MAX_PACKET - Len(CodecPayload(0, 1, <<>>))) \div Len(SerializeCommands(<<CmdBbb>>))

\* what CommandEncoder::encode is called on, <<commands, hash, frame>>:
\* short lists, the longest list of CmdBbb whose payload fits
\* KCP_MAX_PACKET, that list with one more command, and a hash too long for
\* a frame
EncoderInputs ==
    { <<l, <<9>>, 1>> : l \in CodecLists }
        \cup { <<<<CmdAaa, CmdBbb>>, <<>>, 200>>,
               <<<<CmdAaa>>, Zeros(KCP_MAX_PACKET), 1>>,
               <<[i \in 1..FittingCommands |-> CmdBbb], <<9>>, 1>>,
               <<[i \in 1..FittingCommands |-> CmdBbb] \o <<CmdAaa>>, <<>>, 1>> }

\* CommandEncoder::encode(frame) on staged commands and hash: prev holds
\* the staged commands, msg the Hash message, out_bytes command_bytes
CallEncodeCommands ==
    /\ \E i \in EncoderInputs :
          \E r \in {CommandEncoderEncode(i[1], i[2], i[3])} :
              codec_call' = [NoCall EXCEPT !.op = "encode_commands", !.prev = i[1],
                                           !.msg = [type |-> "Hash", frame |-> i[3],
                                                    hash |-> i[2]],
                                           !.ok = r.ok, !.err = r.err,
                                           !.out_bytes = r.command_bytes,
                                           !.n = Len(r.command_bytes)]
    /\ UNCHANGED cd_commands
    /\ UNCHANGED restOfCodec

CodecNext ==
    \/ CallEncode
    \/ CallDecode
    \/ CallDecodeCommands
    \/ CallEncodeCommands

CodecSpec == Init /\ [][CodecNext]_vars

(***************************************************************************)
(* The output side of the channel on its own: the worker's                 *)
(* send_output_commands and send_output_states, the game's recv_output     *)
(* with buffers it keeps and may empty between calls, and finish, in any   *)
(* order.                                                                  *)
(***************************************************************************)
\* the batches handed to send_output_commands: three records, all different
OutBatches ==
    { <<[conv |-> PeerConv, frame |-> 1, command |-> CmdAaa]>>,
      <<[conv |-> PeerConv, frame |-> 2, command |-> CmdBbb],
        [conv |-> PeerConv, frame |-> 2, command |-> CmdAaa]>> }

OutSendCommands ==
    /\ Len(out_sent) < MaxSent
    /\ \E c \in OutBatches :
          /\ chan' = ChanSendOutputCommands(chan, c)
          /\ out_sent' = out_sent \o c
    /\ UNCHANGED <<g_ret, g_commands, g_states, ngameover, finish_calls, submitted, received,
                   out_drained>>
    /\ UNCHANGED <<pc, state, frame, ce_commands, ce_hash, err, delay, now, stopped_at,
                   updated_at, nrecv, sent, ninputs, nreceived, marker_at, self_writes,
                   cd_commands, codec_call,
                   tick_current, tick_next>>

OutRecvOutput ==
    /\ \E r \in {ChanRecvOutput(chan, g_commands, g_states)} :
          /\ chan' = r.chan
          /\ g_ret' = r.ret
          /\ g_commands' = r.commands
          /\ g_states' = r.states
          /\ out_drained' = IF r.ret = "Ok"
                              THEN out_drained \o SubSeq(r.commands, Len(g_commands) + 1,
                                                         Len(r.commands))
                              ELSE out_drained
    /\ UNCHANGED <<ngameover, finish_calls, submitted, received, out_sent>>
    /\ UNCHANGED <<pc, state, frame, ce_commands, ce_hash, err, delay, now, stopped_at,
                   updated_at, nrecv, sent, ninputs, nreceived, marker_at, self_writes,
                   cd_commands, codec_call,
                   tick_current, tick_next>>

OutputNext ==
    \/ OutSendCommands
    \/ OutRecvOutput
    \/ CallSendOutputStates
    \/ CallerClear
    \/ CallFinish

OutputSpec == Init /\ [][OutputNext]_vars

(***************************************************************************)
(* The tick schedule of update() on its own (worker.rs:93-109): each       *)
(* iteration reads the clock, current being the whole milliseconds since   *)
(* started_at, and computes next, the deadline it hands to update_udp as   *)
(* started_at + next. Between two readings the clock has moved on by any   *)
(* amount: update_udp may return before, at or after its deadline.         *)
(***************************************************************************)
\* the deadline rounded up to a multiple of KCP_INTERVAL
NextTickCeil(current) == ((current + KCP_INTERVAL - 1) \div KCP_INTERVAL) * KCP_INTERVAL

\* next = (current + KCP_INTERVAL) / KCP_INTERVAL * KCP_INTERVAL, in u64,
\* far from its upper end
NextTick(current) == ((current + KCP_INTERVAL) \div KCP_INTERVAL) * KCP_INTERVAL

UpdateTick ==
    /\ \E d \in 0..MaxTickStep :
          /\ tick_current + d <= MaxTickMs
          /\ tick_current' = tick_current + d
          /\ tick_next' = NextTick(tick_current + d)
    /\ UNCHANGED <<chanVars, workerVars, gameVars, callerVars, codecVars>>

TickNext == UpdateTick

TickSpec == Init /\ [][TickNext]_vars

(***************************************************************************)
(* Properties.                                                             *)
(***************************************************************************)
\* C1: channel poisoning. Whenever the channel holds a finish cause, a
\* call of send_input (with any input), of recv_output (with the caller's
\* buffers as they are) or of game_over returns that cause, leaves the
\* channel as it is (nothing enqueued, the accumulator not drained) and
\* leaves the caller's buffers as they are.
ChannelPoisoning ==
    chan.finish_cause # "None" =>
        /\ \A i \in ChanInputs :
              ChanSendInput(chan, i[1], i[2], i[3]) = [chan |-> chan, ret |-> chan.finish_cause]
        /\ ChanRecvOutput(chan, g_commands, g_states)
              = [chan |-> chan, ret |-> chan.finish_cause,
                 commands |-> g_commands, states |-> g_states]
        /\ ChanGameOver(chan) = [chan |-> chan, ret |-> chan.finish_cause]

\* a call failed on a finished channel that holds undrained output and
\* queued input, the caller's buffers holding an earlier drain
ChannelPoisoningWitness ==
    /\ chan.finish_cause # "None"
    /\ g_ret = chan.finish_cause
    /\ chan.output.commands # <<>>
    /\ chan.input_queue # <<>>
    /\ DOMAIN g_states # {}

\* the message in the i-th packet send_kcp accepted
SentMsg(i) == NetMessageDecode(sent[i].bytes).msg

\* the step is the worker handling an input recv_input returned
HandlesInput == pc = "input" /\ nreceived' = nreceived + 1

\* the input at the head of the queue
HeadInput == Head(chan.input_queue).input

\* the step is the worker's call of NetChan::finish
CallsFinish == pc = "finish" /\ pc' # "finish"

\* C2: run() returns only through finish(): NetChan::finish is called at
\* most once, it has been called exactly once when the worker is past
\* finish() (draining or returned), the channel holds a cause exactly
\* when it has been called, and a cause the channel holds never changes.
FinishExactlyOnce ==
    /\ [](finish_calls <= 1)
    /\ [](pc \in {"drain", "done"} <=> finish_calls = 1)
    /\ [](chan.finish_cause # "None" <=> finish_calls = 1)
    /\ [][chan.finish_cause # "None" => chan'.finish_cause = chan.finish_cause]_vars

\* run() has returned after the drain, and the game thread has seen the cause
FinishExactlyOnceWitness ==
    /\ pc = "done"
    /\ delay
    /\ finish_calls = 1
    /\ g_ret = chan.finish_cause

\* C3: frame monotonicity. In Running, handling an input whose frame is
\* not above the worker's frame counter fails with InvalidFrame, sends
\* nothing and leaves the counter; finish() then poisons the channel with
\* ClientError; and the frames of the Hash packets sent, like those of
\* the Command packets sent, are strictly increasing.
FrameMonotonicity ==
    /\ [][HandlesInput /\ state = "Running" /\ HeadInput.frame <= frame
            => /\ err' = KErr("InvalidFrame")
               /\ pc' = "finish"
               /\ sent' = sent
               /\ frame' = frame]_vars
    /\ [][CallsFinish /\ err = KErr("InvalidFrame")
            => chan'.finish_cause = "ClientError"]_vars
    /\ [](\A i, j \in DOMAIN sent :
            /\ i < j
            /\ SentMsg(i).type \in {"Hash", "Command"}
            /\ SentMsg(j).type = SentMsg(i).type
            => SentMsg(i).frame < SentMsg(j).frame)

\* a frame was accepted and sent, the next input was rejected, and the
\* channel is poisoned with ClientError
FrameMonotonicityWitness ==
    /\ state = "Running"
    /\ nreceived = 2
    /\ frame = 2
    /\ Len(sent) = 3
    /\ chan.finish_cause = "ClientError"

\* C4: state monotonicity. A step that changes the worker's state moves
\* it up the order Initing < Waiting < Running < Stopped and performs
\* one send_output_states(self.conv, new state), which the accumulator
\* then holds; a step that leaves the state performs none and puts no
\* entry of self.conv into the accumulator.
StateMonotonicity ==
    [][/\ state' # state
            => /\ StateRank(state') > StateRank(state)
               /\ self_writes' = self_writes + 1
               /\ SelfConv \in DOMAIN chan'.output.states
               /\ chan'.output.states[SelfConv] = state'
       /\ state' = state
            => /\ self_writes' = self_writes
               /\ SelfConv \in DOMAIN chan'.output.states
                    => /\ SelfConv \in DOMAIN chan.output.states
                       /\ chan'.output.states[SelfConv] = chan.output.states[SelfConv]]_vars

\* the worker went through every state, three payloads having come in
StateMonotonicityWitness ==
    /\ state = "Stopped"
    /\ self_writes = 3
    /\ nrecv = 3

\* C5: every packet sent while the worker was not Running is the Connect
\* of connect(), the first packet: a Hash or Command packet is sent only
\* in Running, and no input handled in another state sends anything.
SendsOnlyInRunning ==
    \A i \in DOMAIN sent :
        /\ sent[i].state # "Running" => i = 1 /\ SentMsg(i).type = "Connect"
        /\ SentMsg(i).type \in {"Hash", "Command"} => sent[i].state = "Running"

\* an input was handled before Running and one in Running, which sent
\* its two packets
SendsOnlyInRunningWitness ==
    /\ pc = "output"
    /\ state = "Running"
    /\ nreceived = 2
    /\ frame = 1
    /\ Len(sent) = 3

\* C6: input before Running. In Initing and Waiting, handling an input
\* with commands or a hash fails with Unexpected and sends nothing, and
\* finish() then poisons the channel with ClientError and drains;
\* handling an input with neither succeeds, sends nothing and leaves the
\* frame counter.
PreRunningInput ==
    /\ [][HandlesInput /\ state \in {"Initing", "Waiting"}
            => IF HeadInput.commands # <<>> \/ HeadInput.hash # <<>>
               THEN err' = KErr("Unexpected") /\ pc' = "finish" /\ sent' = sent
               ELSE /\ err' = NoErr
                    /\ pc' = "input"
                    /\ sent' = sent
                    /\ frame' = frame]_vars
    /\ [][CallsFinish /\ err = KErr("Unexpected")
            => chan'.finish_cause = "ClientError" /\ pc' = "drain"]_vars

\* an empty input was accepted in Waiting, the next one was rejected
PreRunningInputWitness ==
    /\ state = "Waiting"
    /\ nreceived = 2
    /\ frame = 0
    /\ pc = "finish"
    /\ err = KErr("Unexpected")

\* the packets sent after the Connect come in pairs
SentPairs == IF sent = <<>> THEN 0 ELSE (Len(sent) - 1) \div 2

\* a packet is left over after the pairs
SentLone == sent # <<>> /\ (Len(sent) - 1) % 2 = 1

\* the k-th pair is the Hash packet and then the Command packet of one frame
PairOk(k) ==
    /\ SentMsg(2 * k).type = "Hash"
    /\ SentMsg(2 * k + 1).type = "Command"
    /\ SentMsg(2 * k).frame = SentMsg(2 * k + 1).frame

\* the pairs are well formed and their frames increase
PairsOk ==
    /\ \A k \in 1..SentPairs : PairOk(k)
    /\ \A k \in 1..(SentPairs - 1) : SentMsg(2 * k).frame < SentMsg(2 * k + 2).frame

\* finish() has been entered
Ending == pc \in {"finish", "drain", "done"}

\* C7 as stated: the packets sent after the Connect are the pairs Hash N,
\* Command N in increasing N, with no packet left over, and the frame
\* accepted last has its pair.
HashCommandPairsAlways ==
    /\ PairsOk
    /\ ~SentLone
    /\ frame > 0 => SentPairs > 0 /\ SentMsg(Len(sent)).frame = frame

\* C7: the packets sent after the Connect are the pairs Hash N, Command N
\* in increasing N, so that a Command packet always follows the Hash
\* packet of its frame; the frame accepted last has its pair unless a
\* failure in its handling has ended the loop, and then it has nothing
\* sent or only its Hash packet, the last packet sent.
HashCommandPairs ==
    /\ PairsOk
    /\ SentLone
          => /\ Ending
             /\ SentMsg(Len(sent)).type = "Hash"
             /\ SentMsg(Len(sent)).frame = frame
             /\ SentPairs > 0 => SentMsg(Len(sent) - 1).frame < frame
    /\ frame > 0 /\ ~SentLone
          => \/ SentPairs > 0 /\ SentMsg(Len(sent)).frame = frame
             \/ /\ Ending
                /\ SentPairs > 0 => SentMsg(Len(sent)).frame < frame

\* two frames were accepted and each had its pair sent
HashCommandPairsWitness ==
    /\ frame = 2
    /\ SentPairs = 2
    /\ ~SentLone
    /\ ~Ending

\* the triples of the inputs in the queue, in order
RECURSIVE QueuedTriples(_)
QueuedTriples(q) ==
    IF q = <<>> THEN <<>>
    ELSE IF Head(q).kind = "Input"
         THEN <<<<Head(q).input.frame, Head(q).input.commands, Head(q).input.hash>>>>
                 \o QueuedTriples(Tail(q))
         ELSE QueuedTriples(Tail(q))

\* C8: the triples recv_input has returned with NonEmpty, followed by
\* those still in the queue, are the triples the successful send_input
\* calls submitted, in order: what was returned is a prefix of what was
\* submitted, nothing is lost, repeated or mixed with another input's data.
InputFifo == received \o QueuedTriples(chan.input_queue) = submitted

\* an input with commands was returned, its buffer went to the cache and
\* was used again for an input without commands, which was returned too
InputFifoWitness ==
    /\ Len(submitted) = 2
    /\ Len(received) = 2
    /\ Len(chan.cache_stack) = 1
    /\ received[1][2] # <<>>
    /\ received[2][2] = <<>>

\* the Finish message of cause c as recv_kcp yields it
FinishPacket(c) == Frame([type |-> "Finish", cause |-> c])

\* C9: in Initing, Waiting and Running, handle_output_impl on a Finish
\* message of cause c fails with RemoteFinished(c) and changes neither
\* the state nor the channel; the loop is left for finish(), which
\* poisons the channel with c and goes on to the drain that ends run().
RemoteFinish ==
    /\ [](\A st \in {"Initing", "Waiting", "Running"}, c \in FinishCauses :
            LET o == HandleOutputImpl(st, FinishPacket(c), chan, SelfConv)
            IN  o.err = RemoteFinished(c) /\ o.state = st /\ o.chan = chan)
    /\ [][pc = "output" /\ err'.kind = "RemoteFinished" => pc' = "finish" /\ delay']_vars
    /\ [][CallsFinish /\ err.kind = "RemoteFinished"
            => chan'.finish_cause = err.cause /\ pc' = "drain"]_vars

\* a Finish message of a cause only the server gives came in in Running,
\* and run() has returned
RemoteFinishWitness ==
    /\ state = "Running"
    /\ pc = "done"
    /\ chan.finish_cause = "ServerDefined"

\* the queue holds a Finish marker
MarkerQueued == \E i \in DOMAIN chan.input_queue : chan.input_queue[i].kind = "Finish"

\* C10: graceful termination. After a game_over that returned Ok the
\* marker stays in the queue while the worker is in its loop; when the
\* worker gets it, it has handled every input submitted before the
\* game_over; it then sets its state to Stopped and raises GameOver;
\* from there run() returns with the channel poisoned with GameOver; and
\* under fair scheduling of the worker run() does return after a
\* game_over that returned Ok.
GracefulTermination ==
    /\ [](ngameover > 0 /\ pc \in {"start", "input", "output"} => MarkerQueued)
    /\ [](pc = "stopping" => nreceived = marker_at)
    /\ [][pc = "stopping" /\ pc' # "stopping"
            => state' = "Stopped" /\ err' = KErr("GameOver") /\ pc' = "finish"]_vars
    /\ (pc = "stopping")
          ~> (pc = "done" /\ state = "Stopped" /\ chan.finish_cause = "GameOver")
    /\ (ngameover > 0) ~> (pc = "done")

\* two inputs were submitted before the game_over and handled in Running;
\* run() has returned with the channel poisoned with GameOver
GracefulTerminationWitness ==
    /\ pc = "done"
    /\ state = "Stopped"
    /\ chan.finish_cause = "GameOver"
    /\ marker_at = 2
    /\ nreceived = 2
    /\ SentPairs = 2


(***************************************************************************)
(* C11. The cause finish() stores on the channel is the image of the fatal *)
(* error under the table: IO, Timeout, WindowExhausted -> NetworkBroken;   *)
(* PacketTooShort, PacketTooLong, PacketBroken, UnexpectedPacket ->        *)
(* InvalidPacket; GameOver -> GameOver; RemoteFinished(c) -> c; Protobuf,  *)
(* Bincode, KCP, Unexpected, InvalidFrame, MessageTooLong and an error     *)
(* that is no KCPError -> ClientError.                                     *)
(***************************************************************************)
\* every error: the variants of KCPError and an error that is none of them
AllErrors ==
    { KErr(k) : k \in {"IO", "Timeout", "WindowExhausted", "PacketBroken", "PacketTooShort",
                        "PacketTooLong", "UnexpectedPacket", "GameOver", "Protobuf", "Bincode",
                        "KCP", "Unexpected", "InvalidFrame", "MessageTooLong", "Other"} }
        \cup { RemoteFinished(c) : c \in FinishCauses }

\* the table as the claim states it
TableCause(e) ==
    IF e.kind = "IO" \/ e.kind = "Timeout" \/ e.kind = "WindowExhausted" THEN "NetworkBroken"
    ELSE IF e.kind = "PacketTooShort" \/ e.kind = "PacketTooLong" \/ e.kind = "PacketBroken"
            \/ e.kind = "UnexpectedPacket" THEN "InvalidPacket"
    ELSE IF e.kind = "GameOver" THEN "GameOver"
    ELSE IF e.kind = "RemoteFinished" THEN e.cause
    ELSE "ClientError"

FinishCauseMapping ==
    /\ [](\A e \in AllErrors : KCPErrorCause(e) = TableCause(e))
    /\ [][CallsFinish => /\ err \in AllErrors
                         /\ chan.finish_cause = "None"
                         /\ chan'.finish_cause = TableCause(err)]_vars

\* the worker has ended in Waiting on a packet of the InvalidPacket family,
\* and finish() has stored that cause
FinishCauseMappingWitness ==
    /\ pc = "done"
    /\ chan.finish_cause = "InvalidPacket"
    /\ state = "Waiting"


(***************************************************************************)
(* C12. A payload the structured decoder rejects: the outer frame's        *)
(* payload in NetMessage::decode, or the trailing command list in          *)
(* CommandDecoder::decode.                                                 *)
(***************************************************************************)
PacketBrokenFamily == {"PacketBroken", "PacketTooShort", "PacketTooLong", "UnexpectedPacket"}

\* the header of p is sound (length, tag) and protobuf rejects its payload
PayloadRejected(p) ==
    /\ Len(p) >= KCP_MIN_PACKET
    /\ Len(p) <= KCP_MAX_PACKET
    /\ KCP_MIN_PACKET + ReadU16BE(p) <= Len(p)
    /\ NetTypeOf(p[1]) # "Unknown"
    /\ ~PbParse(NetTypeOf(p[1]), SubSeq(p, KCP_MIN_PACKET + 1, KCP_MIN_PACKET + ReadU16BE(p))).ok

\* p is a sound Command frame followed by a list bincode rejects
ListRejected(p) ==
    /\ Len(p) >= KCP_MIN_PACKET
    /\ Len(p) <= KCP_MAX_PACKET
    /\ KCP_MIN_PACKET + ReadU16BE(p) <= Len(p)
    /\ NetTypeOf(p[1]) = "Command"
    /\ PbParse("Command", SubSeq(p, KCP_MIN_PACKET + 1, KCP_MIN_PACKET + ReadU16BE(p))).ok
    /\ ~BincodeDeserialize(SubSeq(p, KCP_MIN_PACKET + ReadU16BE(p) + 1, Len(p))).ok

\* this step is handle_output_impl handling the payload p
Receives(p) ==
    /\ pc = "output"
    /\ nrecv' = nrecv + 1
    /\ err' = HandleOutputImpl(state, p, chan, SelfConv).err
    /\ state' = HandleOutputImpl(state, p, chan, SelfConv).state
    /\ chan' = HandleOutputImpl(state, p, chan, SelfConv).chan

\* the worker decodes the trailing list of a Command payload in Running only
Rejected(p) == PayloadRejected(p) \/ (state = "Running" /\ ListRejected(p))

\* C12 as stated: a payload the structured decoder rejects is reported as an
\* error of the PacketBroken family, and the worker that received it
\* ends with the channel poisoned with InvalidPacket
DecoderFailureInvalidPacket ==
    /\ [][\A p \in Packets : Receives(p) /\ Rejected(p)
                => pc' = "finish" /\ err'.kind \in PacketBrokenFamily]_vars
    /\ [][CallsFinish /\ err.kind \in {"Protobuf", "Bincode"}
                => chan'.finish_cause = "InvalidPacket"]_vars

\* C12 amended: a payload protobuf rejects is reported as Protobuf, a
\* command list bincode rejects as Bincode, and the worker that received it
\* ends with the channel poisoned with ClientError
DecoderFailureClientError ==
    /\ [][\A p \in Packets : Receives(p) /\ PayloadRejected(p)
                => pc' = "finish" /\ err' = KErr("Protobuf")]_vars
    /\ [][\A p \in Packets : Receives(p) /\ state = "Running" /\ ListRejected(p)
                                /\ ~PayloadRejected(p)
                => pc' = "finish" /\ err' = KErr("Bincode")]_vars
    /\ [][CallsFinish /\ err.kind \in {"Protobuf", "Bincode"}
                => chan'.finish_cause = "ClientError" /\ pc' = "drain"]_vars

\* the worker, Running, has received a command list bincode rejects and is
\* about to finish on it
DecoderFailureClientErrorWitness ==
    /\ pc = "finish"
    /\ state = "Running"
    /\ err = KErr("Bincode")
    /\ \E p \in Packets : ListRejected(p)
    /\ \E p \in Packets : PayloadRejected(p)


(***************************************************************************)
(* C13. Command decode ordering: CommandDecoder::decode of a Command frame *)
(* {conv, frame} followed by a serialized list of k commands succeeds and  *)
(* leaves in the decoder exactly k CommandEx records, in the serialized    *)
(* order, each with the frame's conv and frame, whatever the decoder held  *)
(* before; the length field of the frame does not cover the list.          *)
(***************************************************************************)
CommandDecodeOrdering ==
    \A c \in CodecConvs, f \in CodecFrames, l \in CodecLists :
        (codec_call.op = "decode_commands" /\ codec_call.bytes = CodecPayload(c, f, l)) =>
            /\ codec_call.ok
            /\ Len(cd_commands) = Len(l)
            /\ \A i \in 1..Len(l) :
                    cd_commands[i] = [conv |-> c, frame |-> f, command |-> l[i]]
            /\ KCP_MIN_PACKET + ReadU16BE(codec_call.bytes)
                    = Len(codec_call.bytes) - Len(BincodeSerialize(l))
            /\ Len(BincodeSerialize(l)) > 0

\* a decoder holding two records has decoded a payload of three commands
CommandDecodeOrderingWitness ==
    /\ codec_call.op = "decode_commands"
    /\ codec_call.ok
    /\ codec_call.bytes = CodecPayload(300, 200, <<CmdAaa, CmdBbb, CmdBbb>>)
    /\ Len(codec_call.prev) = 2
    /\ Len(cd_commands) = 3


FramingRoundTrip ==
    (/\ codec_call.op = "encode"
     /\ codec_call.bytes = <<>>
     /\ Len(codec_call.out_bytes) \in KCP_MIN_PACKET..KCP_MAX_PACKET) =>
        /\ codec_call.ok
        /\ codec_call.n = Len(codec_call.out_bytes)
        /\ NetMessageDecode(codec_call.out_bytes).ok
        /\ NetMessageDecode(codec_call.out_bytes).msg = codec_call.msg
        /\ NetMessageDecode(codec_call.out_bytes).offset = Len(codec_call.out_bytes)
        /\ codec_call.out_bytes[1] \in 1..7
        /\ NetTypeOf(codec_call.out_bytes[1]) = codec_call.msg.type
        /\ codec_call.out_bytes[2] * 256 + codec_call.out_bytes[3]
                = Len(codec_call.out_bytes) - 3
        /\ codec_call.out_bytes[2] \in 0..255
        /\ codec_call.out_bytes[3] \in 0..255

\* a Hash whose frame is exactly KCP_MAX_PACKET bytes has been encoded
FramingRoundTripWitness ==
    /\ codec_call.op = "encode"
    /\ codec_call.bytes = <<>>
    /\ codec_call.ok
    /\ codec_call.msg.type = "Hash"
    /\ Len(codec_call.out_bytes) = KCP_MAX_PACKET


(***************************************************************************)
(* C16. Cache reuse bound: whatever send_input and recv_input calls have   *)
(* been made, the cache_stack holds at most 3 buffers, each of them        *)
(* cleared (frame 0, no commands, no hash); a recv_input that takes an     *)
(* input while the stack holds 3 leaves the stack as it is, its buffer     *)
(* dropped.                                                                *)
(***************************************************************************)
\* this step is a recv_input that returned NonEmpty
RecvNonEmpty == Len(received') = Len(received) + 1

CacheReuseBound ==
    /\ [](Len(chan.cache_stack) <= 3)
    /\ [](\A i \in 1..Len(chan.cache_stack) :
            chan.cache_stack[i] = [frame |-> 0, commands |-> <<>>, hash |-> <<>>])
    /\ [][RecvNonEmpty /\ Len(chan.cache_stack) = 3
                => /\ chan'.cache_stack = chan.cache_stack
                   /\ chan'.input_queue = Tail(chan.input_queue)]_vars
    /\ [][RecvNonEmpty /\ Len(chan.cache_stack) < 3
                => Len(chan'.cache_stack) = Len(chan.cache_stack) + 1]_vars

\* four inputs were queued at once and all taken: three buffers are in the
\* cache and the fourth is gone
CacheReuseBoundWitness ==
    /\ Len(received) = 4
    /\ chan.input_queue = <<>>
    /\ Len(chan.cache_stack) = 3


(***************************************************************************)
(* C17. Whatever the interleaving of send_output_commands and recv_output  *)
(* calls, a recv_output that returns Ok appends to its caller's list       *)
(* exactly the commands accumulated since the last one that did, and       *)
(* empties the accumulator: the commands drained so far, followed by those *)
(* still accumulated, are the commands sent so far, so that what was       *)
(* drained is a prefix of what was sent, each command delivered at most    *)
(* once and in the order appended.                                         *)
(***************************************************************************)
IsPrefix(p, q) == Len(p) <= Len(q) /\ SubSeq(q, 1, Len(p)) = p

\* this step is a recv_output that returned Ok and found commands
DrainsCommands == out_drained' # out_drained

OutputOrder ==
    /\ [](out_drained \o chan.output.commands = out_sent)
    /\ [](IsPrefix(out_drained, out_sent))
    /\ [][DrainsCommands => /\ g_ret' = "Ok"
                            /\ chan.output.commands # <<>>
                            /\ g_commands' = g_commands \o chan.output.commands
                            /\ out_drained' = out_drained \o chan.output.commands
                            /\ chan'.output.commands = <<>>]_vars

\* two batches were drained one by one, the caller emptying its list in
\* between, and a third batch is accumulated
OutputOrderWitness ==
    /\ Len(out_drained) = 2
    /\ Len(chan.output.commands) = 2
    /\ Len(g_commands) = 1
    /\ out_sent[3] # out_sent[4]
    /\ chan.finish_cause = "None"


(***************************************************************************)
(* C18. Connect timeout: a tick that ends with the worker still in Initing *)
(* raises Timeout if 11 s have elapsed since the run started and raises    *)
(* nothing before; the worker then stores NetworkBroken on the channel,    *)
(* drains and terminates.                                                  *)
(***************************************************************************)
\* this step ends a tick: update_udp returned and handle_timeout ran
TickEnds ==
    /\ pc = "output"
    /\ pc' # "output"
    /\ nrecv' = nrecv
    /\ err'.kind \in {"None", "Timeout"}

ConnectTimeout ==
    /\ [][TickEnds /\ state = "Initing"
                => IF now' >= 11000
                   THEN err' = KErr("Timeout") /\ pc' = "finish" /\ delay'
                   ELSE err' = NoErr /\ pc' = "input"]_vars
    /\ [][CallsFinish /\ err = KErr("Timeout")
                => chan'.finish_cause = "NetworkBroken" /\ pc' = "drain"]_vars
    /\ [][pc = "drain" /\ pc' # "drain" => pc' = "done" /\ chan' = chan]_vars

\* no Accept came: handle_timeout has raised Timeout in Initing, after a
\* tick at 10.5 s that raised nothing
ConnectTimeoutWitness ==
    /\ pc = "finish"
    /\ state = "Initing"
    /\ err = KErr("Timeout")
    /\ now >= 11000
    /\ chan.finish_cause = "None"


(***************************************************************************)
(* C19. Per-phase deadlines of handle_timeout at the end of a tick, in     *)
(* Initing and in Waiting, both measured from started_at.                  *)
(***************************************************************************)
\* times in milliseconds since started_at, around each whole second that
\* matters
DeadlineInstants ==
    { sec * 1000 + ms : sec \in {0, CONNECT_TIMEOUT - 1, CONNECT_TIMEOUT, CONNECT_TIMEOUT + 1,
                                 CONNECT_TIMEOUT + 2, START_TIMEOUT - 1, START_TIMEOUT,
                                 START_TIMEOUT + 1, START_TIMEOUT + 2, 2 * START_TIMEOUT},
                      ms \in {0, 1, 500, 999} }

\* C19 as stated: at the end of a tick handle_timeout raises Timeout in
\* Initing if and only if the time is past started_at + CONNECT_TIMEOUT,
\* and in Waiting if and only if it is past started_at + START_TIMEOUT
PhaseDeadlinesExact ==
    /\ [][TickEnds /\ state = "Initing"
                => (err' = KErr("Timeout") <=> now' > CONNECT_TIMEOUT * 1000)]_vars
    /\ [][TickEnds /\ state = "Waiting"
                => (err' = KErr("Timeout") <=> now' > START_TIMEOUT * 1000)]_vars

\* C19 amended: the deadlines are compared in whole seconds. At the end of
\* a tick handle_timeout raises Timeout in Initing if and only if the whole
\* seconds elapsed since started_at exceed CONNECT_TIMEOUT (11 s or more
\* have elapsed), and in Waiting if and only if they exceed START_TIMEOUT
\* (21 s or more), whenever Waiting was entered
PhaseDeadlines ==
    /\ [](\A t \in DeadlineInstants :
            /\ HandleTimeout("Initing", t, stopped_at)
                    = IF t >= (CONNECT_TIMEOUT + 1) * 1000 THEN KErr("Timeout") ELSE NoErr
            /\ HandleTimeout("Waiting", t, stopped_at)
                    = IF t >= (START_TIMEOUT + 1) * 1000 THEN KErr("Timeout") ELSE NoErr)
    /\ [][TickEnds /\ state = "Initing"
                => (err' = KErr("Timeout") <=> now' >= (CONNECT_TIMEOUT + 1) * 1000)]_vars
    /\ [][TickEnds /\ state = "Waiting"
                => (err' = KErr("Timeout") <=> now' >= (START_TIMEOUT + 1) * 1000)]_vars

\* the worker is in Waiting and handle_timeout has raised Timeout there, at
\* the first tick that ended 21 s or more after the run started
PhaseDeadlinesWitness ==
    /\ pc = "finish"
    /\ state = "Waiting"
    /\ err = KErr("Timeout")
    /\ now >= (START_TIMEOUT + 1) * 1000
    /\ now < (START_TIMEOUT + CONNECT_TIMEOUT) * 1000


(***************************************************************************)
(* C20. Stopped deadline: stopped_at is the time at which the worker       *)
(* entered Stopped, and handle_timeout, run with state Stopped more than   *)
(* UPDATE_TIMEOUT after it, raises Timeout. Stated on the step that enters *)
(* Stopped, for handle_timeout run on the worker as that step leaves it.   *)
(***************************************************************************)
\* this step is set_self_state(Stopped)
EntersStopped == state # "Stopped" /\ state' = "Stopped"

StoppedDeadline ==
    [][EntersStopped
            => \A late \in {1, 999, 1000, 5000} :
                    HandleTimeout(state', now' + UPDATE_TIMEOUT * 1000 + late, stopped_at')
                        = KErr("Timeout")]_vars


(***************************************************************************)
(* C21. No Running deadline: in Running handle_timeout raises nothing,     *)
(* whatever the time since started_at or updated_at, so a tick that ends   *)
(* in Running goes on to the next one; the worker leaves its loop in       *)
(* Running only on recv_input's Finish (game_over), on a Finish packet, a  *)
(* malformed or unexpected packet, an invalid input or a transport error.  *)
(* The clock is taken never to read earlier than started_at.               *)
(***************************************************************************)
\* the errors that end the loop in Running: a Finish packet, a malformed
\* packet, an unexpected packet, an invalid input, a transport error
RunningExits ==
    { RemoteFinished(c) : c \in FinishCauses }
        \cup { KErr(k) : k \in {"PacketBroken", "PacketTooShort", "PacketTooLong", "Protobuf",
                                 "Bincode", "UnexpectedPacket", "InvalidFrame",
                                 "MessageTooLong", "WindowExhausted", "KCP", "IO"} }

\* the worker is in update()'s loop
InLoop == pc \in {"input", "output"}

Drains == pc = "drain" /\ pc' # "drain"

TerminationPath ==
    /\ [][CallsFinish => /\ chan'.finish_cause = KCPErrorCause(err)
                         /\ chan'.finish_cause # "None"
                         /\ delay <=> sent # <<>>
                         /\ delay => SentMsg(1).type = "Connect"
                         /\ pc' = IF delay THEN "drain" ELSE "done"
                         /\ now' = now]_vars
    /\ [](pc = "drain" => chan.finish_cause # "None" /\ delay)
    /\ [][Drains => /\ pc' = "done"
                    /\ now' >= now + FINISH_TIMEOUT * 1000
                    /\ chan' = chan
                    /\ nrecv' = nrecv /\ nreceived' = nreceived
                    /\ sent' = sent /\ state' = state
                    /\ finish_calls' = finish_calls]_vars
    /\ [][pc = "done" => pc' = "done" /\ UNCHANGED workerVars]_vars
    /\ (pc = "finish") ~> (pc = "done")

\* the worker failed after the Connect was sent (here on a payload it
\* received), poisoned the channel, drained for FINISH_TIMEOUT and returned
TerminationPathWitness ==
    /\ pc = "done"
    /\ delay
    /\ nrecv > 0
    /\ chan.finish_cause \in {"InvalidPacket", "ClientError"}
    /\ now >= FINISH_TIMEOUT * 1000
    /\ Len(sent) = 1


(***************************************************************************)
(* C23. Handshake dispatch. In Initing handle_output_impl accepts Accept   *)
(* (the local state becomes Waiting) and Finish (RemoteFinished); in       *)
(* Waiting it accepts State (local state unchanged), Start (the local      *)
(* state becomes Running) and Finish; every other message fails with       *)
(* UnexpectedPacket, the local state and the channel left as they were.    *)
(* Each new local state is written to the channel's states[self.conv], so  *)
(* Accept then Start gives Initing, Waiting, Running.                      *)
(***************************************************************************)
\* one message of each of the seven variants (State of a peer and of self)
DispatchMsgs ==
    { ConnectMsg,
      [type |-> "Accept"],
      [type |-> "State", conv |-> PeerConv, state |-> "Running"],
      [type |-> "State", conv |-> SelfConv, state |-> "Stopped"],
      [type |-> "Start"],
      [type |-> "Finish", cause |-> "GameOver"],
      [type |-> "Finish", cause |-> "ServerDefined"],
      [type |-> "Command", conv |-> PeerConv, frame |-> 1],
      [type |-> "Hash", frame |-> 1, hash |-> <<9>>] }

\* handle_output_impl of the frame of m in state st on the channel as it is
Dispatch(st, m) == HandleOutputImpl(st, Frame(m), chan, SelfConv)

\* the result of a message that is refused with error e
Refused(st, e) == [err |-> e, state |-> st, chan |-> chan, writes |-> 0, stamped |-> FALSE]

\* the result of a message that moves the local state to new
Moved(new) ==
    [err |-> NoErr, state |-> new, chan |-> ChanSendOutputStates(chan, SelfConv, new),
     writes |-> 1, stamped |-> FALSE]

\* the step is handle_output_impl on a payload recv_kcp yielded
HandlesOutput == pc = "output" /\ nrecv' = nrecv + 1

HandshakeDispatch ==
    /\ [](\A m \in DispatchMsgs :
            /\ Dispatch("Initing", m) =
                    CASE m.type = "Accept" -> Moved("Waiting")
                      [] m.type = "Finish" -> Refused("Initing", RemoteFinished(m.cause))
                      [] OTHER -> Refused("Initing", KErr("UnexpectedPacket"))
            /\ m.type \notin {"State", "Start", "Finish"}
                    => Dispatch("Waiting", m) = Refused("Waiting", KErr("UnexpectedPacket"))
            /\ m.type = "Start" => Dispatch("Waiting", m) = Moved("Running")
            /\ m.type = "Finish"
                    => Dispatch("Waiting", m) = Refused("Waiting", RemoteFinished(m.cause))
            /\ m.type = "State"
                    => Dispatch("Waiting", m).err = NoErr /\ Dispatch("Waiting", m).state = "Waiting")
    /\ [][HandlesOutput /\ state = "Initing"
            => \/ state' = "Waiting" /\ err' = NoErr /\ pc' = "output"
                    /\ chan'.output.states[SelfConv] = "Waiting"
               \/ state' = "Initing" /\ err' # NoErr /\ pc' = "finish" /\ chan' = chan]_vars
    /\ [][HandlesOutput /\ state = "Waiting"
            => \/ state' = "Running" /\ err' = NoErr /\ pc' = "output"
                    /\ chan'.output.states[SelfConv] = "Running"
               \/ state' = "Waiting" /\ err' = NoErr /\ pc' = "output"
               \/ state' = "Waiting" /\ err' # NoErr /\ pc' = "finish" /\ chan' = chan]_vars
    /\ [][state' # state /\ state' # "Stopped"
            => HandlesOutput /\ <<state, state'>> \in {<<"Initing", "Waiting">>,
                                                       <<"Waiting", "Running">>}]_vars

\* Accept, then Start: the worker is Running after two payloads, and the
\* channel holds Running for its conv
HandshakeDispatchWitness ==
    /\ state = "Running"
    /\ nrecv = 2
    /\ pc = "output"
    /\ SelfConv \in DOMAIN chan.output.states
    /\ chan.output.states[SelfConv] = "Running"


(***************************************************************************)
(* C24. Running dispatch. In Running a payload of at least 3 bytes whose   *)
(* first byte is the Command tag goes to CommandDecoder, and the CommandEx *)
(* it holds are all appended to the channel's output commands in one       *)
(* send_output_commands call; any other payload is decoded as an outer     *)
(* frame, State and Finish being accepted and Connect, Accept, Start and   *)
(* Hash refused with UnexpectedPacket. The local state stays Running in    *)
(* every case.                                                             *)
(***************************************************************************)
\* the CommandEx of a Command frame of PeerConv for frame fr
PeerCommands(fr, cmds) ==
    [i \in 1..Len(cmds) |-> [conv |-> PeerConv, frame |-> fr, command |-> cmds[i]]]

\* the result of a Command payload whose commands were forwarded
Forwarded(cmds) ==
    [err |-> NoErr, state |-> "Running", chan |-> ChanSendOutputCommands(chan, cmds),
     writes |-> 0, stamped |-> TRUE]

RunningDispatch ==
    /\ [](\A m \in DispatchMsgs :
            /\ m.type \in {"Connect", "Accept", "Start", "Hash"}
                    => Dispatch("Running", m) = Refused("Running", KErr("UnexpectedPacket"))
            /\ m.type = "Finish"
                    => Dispatch("Running", m) = Refused("Running", RemoteFinished(m.cause))
            /\ m.type = "State"
                    => /\ Dispatch("Running", m).err = NoErr
                       /\ Dispatch("Running", m).state = "Running"
                       /\ Dispatch("Running", m).chan.output.commands = chan.output.commands)
    /\ [](\A fr \in {1, 2}, cmds \in {<<>>, <<CmdAaa, CmdBbb>>} :
            HandleOutputImpl("Running", CommandPacket(fr, cmds), chan, SelfConv)
                = Forwarded(PeerCommands(fr, cmds)))
    /\ [](HandleOutputImpl("Running", <<NetTypeValue("Command"), 0>>, chan, SelfConv)
                = Refused("Running", KErr("PacketTooShort")))
    /\ [][HandlesOutput /\ state = "Running"
            => /\ state' = "Running"
               /\ self_writes' = self_writes
               /\ \/ /\ err' = NoErr /\ pc' = "output"
                     /\ IsPrefix(chan.output.commands, chan'.output.commands)
                  \/ /\ err' # NoErr /\ pc' = "finish" /\ chan' = chan]_vars

\* in Running the worker received a Command payload with two commands:
\* the channel's accumulator holds both, in order, and the state is Running
RunningDispatchWitness ==
    /\ state = "Running"
    /\ pc = "output"
    /\ nrecv = 3
    /\ chan.output.commands = PeerCommands(1, <<CmdAaa, CmdBbb>>)


(***************************************************************************)
(* C25. Tick schedule: in every iteration of update()'s loop the deadline  *)
(* handed to the transport is started_at + next, next being computed from  *)
(* current, the whole milliseconds elapsed since started_at, and           *)
(* KCP_INTERVAL = 10.                                                      *)
(***************************************************************************)
\* ceil(current / KCP_INTERVAL)
CeilTicks(current) ==
    IF current % KCP_INTERVAL = 0 THEN current \div KCP_INTERVAL
    ELSE current \div KCP_INTERVAL + 1

\* the step is an iteration of the loop: it computes a deadline
SchedulesTick == <<tick_current', tick_next'>> # <<tick_current, tick_next>>

\* C25 as stated: next = ceil(current / INTERVAL) * INTERVAL, so that
\* next = current when current is a multiple of INTERVAL
TickScheduleCeil ==
    [][SchedulesTick
            => /\ tick_next' = CeilTicks(tick_current') * KCP_INTERVAL
               /\ tick_current' % KCP_INTERVAL = 0 => tick_next' = tick_current']_vars

\* C25 amended: next = floor(current / INTERVAL) * INTERVAL + INTERVAL, the
\* least multiple of INTERVAL greater than current. It is
\* ceil(current / INTERVAL) * INTERVAL when current is no multiple of
\* INTERVAL, and current + INTERVAL when it is one.
TickSchedule ==
    /\ KCP_INTERVAL = 10
    /\ [][SchedulesTick
            => /\ tick_next' = (tick_current' \div KCP_INTERVAL) * KCP_INTERVAL + KCP_INTERVAL
               /\ tick_next' % KCP_INTERVAL = 0
               /\ tick_current' < tick_next'
               /\ tick_next' <= tick_current' + KCP_INTERVAL
               /\ tick_current' % KCP_INTERVAL # 0
                    => tick_next' = CeilTicks(tick_current') * KCP_INTERVAL
               /\ tick_current' % KCP_INTERVAL = 0
                    => tick_next' = tick_current' + KCP_INTERVAL]_vars

\* an iteration began exactly 20 ms after started_at: its deadline is 30 ms
TickScheduleWitness ==
    /\ tick_current = 2 * KCP_INTERVAL
    /\ tick_next = 3 * KCP_INTERVAL


(***************************************************************************)
(* C27. No leakage between inputs. Each time handle_input calls recv_input *)
(* the command encoder's staging buffers (commands, hash) are empty, so    *)
(* the Hash frame and the Command payload sent for an input carry the      *)
(* frame, the hash and the command list of that input and nothing of an    *)
(* earlier one.                                                            *)
(***************************************************************************)
\* the commands of an input as a Command payload of the encoder carries
\* them (the encoder's Command frame has conv 0)
EncodedCommands(input) ==
    [j \in 1..Len(input.commands) |->
        [conv |-> 0, frame |-> input.frame, command |-> input.commands[j]]]

NoLeakage ==
    /\ [](pc = "input" => ce_commands = <<>> /\ ce_hash = <<>>)
    /\ [][HandlesInput /\ state = "Running" /\ Len(sent') > Len(sent)
            => /\ NetMessageDecode(sent'[Len(sent) + 1].bytes).msg
                    = [type |-> "Hash", frame |-> HeadInput.frame, hash |-> HeadInput.hash]
               /\ Len(sent') > Len(sent) + 1
                    => /\ Len(sent') = Len(sent) + 2
                       /\ CommandDecoderDecode(<<>>, sent'[Len(sent) + 2].bytes)
                            = [ok |-> TRUE, err |-> "None",
                               commands |-> EncodedCommands(HeadInput)]]_vars
    /\ [][HandlesInput /\ state # "Running" => sent' = sent]_vars

\* two inputs, each with two commands and a hash, were handled in Running:
\* the Command payload of the second holds two commands, not four
NoLeakageWitness ==
    /\ pc = "input"
    /\ state = "Running"
    /\ nreceived = 2
    /\ Len(sent) = 5
    /\ Len(CommandDecoderDecode(<<>>, sent[3].bytes).commands) = 2
    /\ Len(CommandDecoderDecode(<<>>, sent[5].bytes).commands) = 2
    /\ SentMsg(4).hash = <<9>>


(***************************************************************************)
(* C28. Encoder/decoder agreement on size: whenever CommandEncoder::encode *)
(* succeeds, the command payload it produced (the Command frame and the    *)
(* serialized list after it) is at most KCP_MAX_PACKET long, and           *)
(* CommandDecoder::decode accepts it and returns the commands encoded, in  *)
(* order.                                                                  *)
(***************************************************************************)
\* the last call on the codec is a CommandEncoder::encode that succeeded
EncodedCommandsOk == codec_call.op = "encode_commands" /\ codec_call.ok

EncoderDecoderAgreement ==
    EncodedCommandsOk
        => /\ Len(codec_call.out_bytes) <= KCP_MAX_PACKET
           /\ CommandDecoderDecode(<<>>, codec_call.out_bytes)
                = [ok |-> TRUE, err |-> "None",
                   commands |-> EncodedCommands([frame |-> codec_call.msg.frame,
                                                 commands |-> codec_call.prev])]


(***************************************************************************)
(* C26. Peer state mirroring. A State{conv, state} accepted in Waiting or  *)
(* in Running with conv other than the worker's own sets the channel's     *)
(* output.states[conv] to state, whatever it held for that conv; a State   *)
(* with the worker's own conv writes nothing. So output.states[self.conv]  *)
(* changes only by the worker's own local transitions, and a State message *)
(* never changes the local state.                                          *)
(***************************************************************************)
\* the states map m with conv mapped to st
StatesWith(m, conv, st) == [k \in (DOMAIN m) \cup {conv} |-> IF k = conv THEN st ELSE m[k]]

\* the channel once a state was recorded for conv
Recorded(conv) == ChanSendOutputStates(chan, conv, "Initing")

\* the step changes what the channel holds for the worker's own conv
SelfEntryChanges ==
    /\ SelfConv \in DOMAIN chan'.output.states
    /\ \/ SelfConv \notin DOMAIN chan.output.states
       \/ chan'.output.states[SelfConv] # chan.output.states[SelfConv]

PeerStateMirroring ==
    /\ [](\A st \in {"Waiting", "Running"}, s \in {"Waiting", "Stopped"} :
            /\ HandleOutputImpl(st, Frame([type |-> "State", conv |-> PeerConv, state |-> s]),
                                Recorded(PeerConv), SelfConv)
                    = [err |-> NoErr, state |-> st, writes |-> 0, stamped |-> FALSE,
                       chan |-> [chan EXCEPT !.output.states = StatesWith(@, PeerConv, s)]]
            /\ HandleOutputImpl(st, Frame([type |-> "State", conv |-> SelfConv, state |-> s]),
                                Recorded(SelfConv), SelfConv)
                    = [err |-> NoErr, state |-> st, writes |-> 0, stamped |-> FALSE,
                       chan |-> Recorded(SelfConv)])
    /\ [][SelfEntryChanges
            => /\ state' # state
               /\ self_writes' = self_writes + 1
               /\ chan'.output.states[SelfConv] = state']_vars
    /\ [][HandlesOutput /\ state' # state
            => chan'.output.states = StatesWith(chan.output.states, SelfConv, state')]_vars

\* in Waiting the worker has taken a State of a peer, and one more State:
\* the channel holds the peer's state, and Waiting for its own conv
PeerStateMirroringWitness ==
    /\ state = "Waiting"
    /\ pc = "output"
    /\ nrecv = 3
    /\ DOMAIN chan.output.states = {SelfConv, PeerConv}
    /\ chan.output.states[PeerConv] = "Running"
    /\ chan.output.states[SelfConv] = "Waiting"


(***************************************************************************)
(* C29. Stopped is terminal for the loop. The local state becomes Stopped  *)
(* only when recv_input returned Finish; from then on the worker is out of *)
(* update()'s loop: it calls no recv_input, handles no input, receives no  *)
(* payload, sends nothing and checks no deadline, its only steps being     *)
(* NetChan::finish(GameOver) and the drain. The Stopped arms of            *)
(* handle_input_impl, handle_output_impl and handle_timeout are therefore  *)
(* never executed.                                                         *)
(***************************************************************************)
StoppedIsTerminal ==
    /\ [](state = "Stopped" => pc \in {"finish", "drain", "done"})
    /\ [][pc # "stopping" /\ pc' = "stopping"
            => /\ pc = "input"
               /\ Head(chan.input_queue).kind = "Finish"
               /\ chan'.input_queue = Tail(chan.input_queue)]_vars
    /\ [][state # "Stopped" /\ state' = "Stopped"
            => pc = "stopping" /\ pc' = "finish" /\ err' = KErr("GameOver") /\ delay']_vars
    /\ [][state = "Stopped"
            => /\ state' = "Stopped"
               /\ nreceived' = nreceived /\ nrecv' = nrecv /\ sent' = sent
               /\ frame' = frame /\ updated_at' = updated_at
               /\ IsPrefix(chan.input_queue, chan'.input_queue)
               /\ pc' # pc => \/ /\ pc = "finish" /\ pc' = "drain"
                                 /\ chan'.finish_cause = "GameOver"
                              \/ pc = "drain" /\ pc' = "done"]_vars

\* the worker was Running when it got the Finish marker: it is Stopped,
\* past finish(GameOver) and draining
StoppedIsTerminalWitness ==
    /\ state = "Stopped"
    /\ pc = "drain"
    /\ nrecv = 2
    /\ chan.finish_cause = "GameOver"
    /\ SelfConv \in DOMAIN chan.output.states
    /\ chan.output.states[SelfConv] = "Stopped"


(***************************************************************************)
(* C30. Inputs after game_over are lost silently. game_over() enqueues the *)
(* Finish marker and does not poison the channel, so a send_input issued   *)
(* after a game_over that returned Ok, before the worker calls finish,     *)
(* returns Ok; the worker leaves its loop at the marker, so that input is  *)
(* never returned by recv_input, and no Hash or Command frame is sent for  *)
(* it: the worker handles, and sends frames for, the inputs submitted      *)
(* before the game_over only.                                              *)
(***************************************************************************)
\* the step is a game_over that returned Ok
GameOverOk == ngameover' = ngameover + 1

\* the step is a send_input that returned Ok after a game_over that did
LateInputOk == ninputs' = ninputs + 1 /\ ngameover > 0

LateInputsLost ==
    /\ [][GameOverOk => /\ chan'.finish_cause = "None"
                        /\ chan'.input_queue = Append(chan.input_queue, WrapFinish)]_vars
    /\ [](ngameover > 0 /\ chan.finish_cause = "None"
            => \A i \in ChanInputs :
                    /\ ChanSendInput(chan, i[1], i[2], i[3]).ret = "Ok"
                    /\ ChanSendInput(chan, i[1], i[2], i[3]).chan.input_queue
                            = Append(chan.input_queue,
                                     WrapInput([frame |-> i[1], commands |-> i[2], hash |-> i[3]])))
    /\ [][LateInputOk => g_ret' = "Ok" /\ finish_calls = 0
                         /\ Len(chan'.input_queue) = Len(chan.input_queue) + 1]_vars
    /\ [](ngameover > 0 => nreceived <= marker_at /\ SentPairs <= marker_at)
    /\ [][ngameover > 0 /\ pc \notin {"start", "input", "output"}
            => IsPrefix(chan.input_queue, chan'.input_queue) /\ sent' = sent]_vars

\* one input was submitted and sent in Running, then game_over returned Ok,
\* then a second send_input returned Ok: run() has returned, the second
\* input is still in the queue and nothing was sent for it
LateInputsLostWitness ==
    /\ pc = "done"
    /\ marker_at = 1
    /\ ninputs = 2
    /\ nreceived = 1
    /\ Len(sent) = 3
    /\ Len(chan.input_queue) = 1
    /\ chan.input_queue[1].kind = "Input"
    /\ chan.finish_cause = "GameOver"

====
